---- MODULE Spec2Model ----
(***************************************************************************)
(* UDP command protocol of the UdpCommandSuite: the Unity-side             *)
(* UdpCommandListener (receive thread, authentication, staleness and       *)
(* duplicate filters, main-thread dispatch and acknowledgement), the       *)
(* envelope signers of the host tool and of UdpClientReporter, the host    *)
(* tool's socket lifecycle and UdpClientReporter's host discovery.         *)
(*                                                                         *)
(* Representation.  Strings are TLA+ strings; a C# null reference is the   *)
(* sentinel Null and a JavaScript undefined is the sentinel Undefined.     *)
(* 64-bit integers (timestamps, the wall clock in milliseconds) exceed the *)
(* 32-bit integers of TLC, so they are pairs [hi, lo] of value             *)
(* hi * Base + lo with 0 <= lo < Base.  The float staleCommandWindow-      *)
(* Seconds is held in thousandths of a second.                             *)
(***************************************************************************)
EXTENDS Integers, Sequences, FiniteSets, TLC

VARIABLES
    sharedSecret,               \* listener configuration (inspector fields)
    staleCommandWindowSeconds,  \* in thousandths of a second
    sendAcknowledgement,
    enabled,                    \* the component is enabled (Update runs)
    mainPc,                     \* "idle", or "drain" between the two calls of OnDisable
    _isListening,
    _receiveClient,             \* Null or "open"
    _ackClient,                 \* Null or "open"
    listenerPc,                 \* receive thread: "none", "receive", "process"
    buffer,                     \* datagram held by the receive thread
    orphans,                    \* datagrams held by cancelled threads that outlived Join(100)
    _pendingCommands,           \* ConcurrentQueue<PendingCommand>
    _processedCommands,         \* Dictionary<string, long>: cmdId -> epoch seconds
    now,                        \* wall clock, Unix milliseconds (pair)
    received,                   \* number of datagrams received so far
    verdicts,                   \* verdicts[i]: what the receive loop did with datagram i
    events,                     \* what the main thread and the ack socket did, in order
    sIn, sOut,                  \* input and result of the pure-function specifications
    burst,                      \* next fresh cmdId of the cache specification
    hostMain,                   \* host tool main process: udpSocket, listenPort, its sockets
    udpReporter,                \* UdpClientReporter: host fields, discovery routine
    renderer                    \* host tool dashboard: clients, selectedDevices, send loop

vars == <<sharedSecret, staleCommandWindowSeconds, sendAcknowledgement, enabled,
          mainPc, _isListening, _receiveClient, _ackClient, listenerPc, buffer,
          orphans, _pendingCommands, _processedCommands, now, received,
          verdicts, events, sIn, sOut, burst, hostMain, udpReporter,
          renderer>>

----------------------------------------------------------------------------
(* Bounds of the model *)

MaxDatagrams == 2
MaxTicks == 1

(* Program constants *)

MaxRememberedCommandIds == 128

Null == "<null>"
Undefined == "<undefined>"

----------------------------------------------------------------------------
(* 64-bit integers as pairs *)

Base == 1000 * 1000

Big(h, l) == [hi |-> h, lo |-> l]

Norm(h, l) == [hi |-> h + (l \div Base), lo |-> l % Base]

BigZero == Big(0, 0)

BigAdd(a, k) == Norm(a.hi, a.lo + k)

BigSub(a, b) == Norm(a.hi - b.hi, a.lo - b.lo)

BigNeg(a) == Norm(0 - a.hi, 0 - a.lo)

BigGt(a, b) == a.hi > b.hi \/ (a.hi = b.hi /\ a.lo > b.lo)

BigMul1000(a) == Norm(a.hi * 1000, a.lo * 1000)

BigDiv1000(a) == [hi |-> a.hi \div 1000, lo |-> (a.hi % 1000) * 1000 + (a.lo \div 1000)]

BigToInt(a) == a.hi * Base + a.lo

Pad6(l) ==
    IF l < 10 THEN "00000" \o ToString(l)
    ELSE IF l < 100 THEN "0000" \o ToString(l)
    ELSE IF l < 1000 THEN "000" \o ToString(l)
    ELSE IF l < 10000 THEN "00" \o ToString(l)
    ELSE IF l < 100000 THEN "0" \o ToString(l)
    ELSE ToString(l)

DigitsOf(a) == IF a.hi = 0 THEN ToString(a.lo) ELSE ToString(a.hi) \o Pad6(a.lo)

(* long.ToString() / `${number}` of an integer: decimal digits, "-" if negative *)
LongToString(a) == IF a.hi < 0 THEN "-" \o DigitsOf(BigNeg(a)) ELSE DigitsOf(a)

----------------------------------------------------------------------------
(* Envelope, wire format *)

IsNullOrEmpty(s) == s = Null \/ s = ""

(* base64(HMACSHA256(text, secret)) as an injective function of (secret, text) *)
Hmac(secret, text) == "hmac[" \o secret \o "](" \o text \o ")"

(* C# string interpolation prints a null reference as the empty string *)
InterpolateCs(s) == IF s = Null THEN "" ELSE s

(* A JavaScript template literal prints undefined as "undefined" *)
TemplateJs(s) == IF s = Undefined THEN "undefined" ELSE s

(* JsonUtility.FromJson<UdpCommandMessage>: fields absent from the JSON object
   keep their default (null reference, 0) *)
JsonString(json, f) == IF f \in DOMAIN json THEN json[f] ELSE Null

FromJson(json) ==
    [cmdId     |-> JsonString(json, "cmdId"),
     action    |-> JsonString(json, "action"),
     payload   |-> JsonString(json, "payload"),
     timestamp |-> IF "timestamp" \in DOMAIN json THEN json["timestamp"] ELSE BigZero,
     signature |-> JsonString(json, "signature")]

ParseOkAnyAction(d) == d.kind = "json"

(* ParseMessage returns null for blank or unparseable text and for a missing
   or empty action *)
ParseOk(d) == d.kind = "json" /\ ~IsNullOrEmpty(FromJson(d.json).action)

----------------------------------------------------------------------------
(* UdpCommandListener: authentication *)

(* equal length, then OR-accumulated XOR of every character pair is 0 *)
CryptographicEquals(a, b) ==
    IF a = Null \/ b = Null \/ Len(a) # Len(b) THEN FALSE ELSE a = b

ListenerCanonicalWithCmdId(message) ==
    InterpolateCs(message.cmdId) \o "|" \o InterpolateCs(message.action) \o "|"
        \o InterpolateCs(IF message.payload = Null THEN "" ELSE message.payload)
        \o "|" \o LongToString(message.timestamp)

ListenerCanonical(message) ==
    InterpolateCs(message.action) \o "|"
        \o InterpolateCs(IF message.payload = Null THEN "" ELSE message.payload)
        \o "|" \o LongToString(message.timestamp)

IsAuthorizedNoSignatureCheck(message) ==
    IF IsNullOrEmpty(sharedSecret) THEN TRUE
    ELSE IF IsNullOrEmpty(message.signature) THEN TRUE
    ELSE CryptographicEquals(Hmac(sharedSecret, ListenerCanonical(message)),
                             message.signature)

IsAuthorizedAlwaysVerify(message) ==
    IF IsNullOrEmpty(message.signature) THEN FALSE
    ELSE CryptographicEquals(Hmac(sharedSecret, ListenerCanonical(message)),
                             message.signature)

IsAuthorized(message) ==
    IF IsNullOrEmpty(sharedSecret) THEN TRUE
    ELSE IF IsNullOrEmpty(message.signature) THEN FALSE
    ELSE CryptographicEquals(Hmac(sharedSecret, ListenerCanonical(message)),
                             message.signature)

----------------------------------------------------------------------------
(* UdpCommandListener: staleness *)

(* message.timestamp > 9_999_999_999 *)
MsThreshold == Big(9999, 999999)

(* largest value DateTimeOffset.FromUnixTimeMilliseconds accepts
   (9999-12-31T23:59:59.999Z); beyond it the call throws *)
MaxUnixMilliseconds == Big(253402300, 799999)

IsPositive(a) == BigGt(a, BigZero)

StaleCheckApplies(message) ==
    ~(staleCommandWindowSeconds <= 0 \/ ~IsPositive(message.timestamp))

TimestampInstantOffByOne(message) ==
    IF BigGt(message.timestamp, BigAdd(MsThreshold, 0 - 1))
    THEN message.timestamp
    ELSE BigMul1000(message.timestamp)

(* the instant the timestamp denotes, in Unix milliseconds *)
TimestampInstant(message) ==
    IF BigGt(message.timestamp, MsThreshold)
    THEN message.timestamp
    ELSE BigMul1000(message.timestamp)

IsStaleThrows(message) ==
    /\ StaleCheckApplies(message)
    /\ BigGt(message.timestamp, MsThreshold)
    /\ BigGt(message.timestamp, MaxUnixMilliseconds)

(* (UtcNow - timestamp).TotalSeconds, in thousandths of a second *)
AgeOf(message) == BigSub(now, TimestampInstant(message))

IsStaleInclusive(message) ==
    IF ~StaleCheckApplies(message) THEN FALSE
    ELSE ~BigGt(Norm(0, staleCommandWindowSeconds), AgeOf(message))

IsStale(message) ==
    IF ~StaleCheckApplies(message) THEN FALSE
    ELSE BigGt(AgeOf(message), Norm(0, staleCommandWindowSeconds))

----------------------------------------------------------------------------
(* UdpCommandListener: duplicate suppression *)

Max(a, b) == IF a >= b THEN a ELSE b

(* DateTimeOffset.UtcNow.ToUnixTimeSeconds() *)
NowSeconds == BigToInt(BigDiv1000(now))

(* (long)Math.Max(1, staleCommandWindowSeconds) *)
PruneWindow == Max(1000, staleCommandWindowSeconds) \div 1000

PruneProcessedCommandsNothing(cache) == cache

PruneProcessedCommands(cache) ==
    LET cutoff == NowSeconds - PruneWindow
        toRemove == {k \in DOMAIN cache : cache[k] < cutoff}
    IN [k \in DOMAIN cache \ toRemove |-> cache[k]]

RegisterCommandIdNoLookup(message) ==
    IF IsNullOrEmpty(message.cmdId)
    THEN [result |-> TRUE, processed |-> _processedCommands]
    ELSE LET inserted == (message.cmdId :> NowSeconds) @@ _processedCommands
         IN [result |-> TRUE,
             processed |-> IF Cardinality(DOMAIN inserted) > MaxRememberedCommandIds
                           THEN PruneProcessedCommands(inserted)
                           ELSE inserted]

RegisterCommandId(message) ==
    IF IsNullOrEmpty(message.cmdId)
    THEN [result |-> TRUE, processed |-> _processedCommands]
    ELSE IF message.cmdId \in DOMAIN _processedCommands
    THEN [result |-> FALSE, processed |-> _processedCommands]
    ELSE LET inserted == (message.cmdId :> NowSeconds) @@ _processedCommands
         IN [result |-> TRUE,
             processed |-> IF Cardinality(DOMAIN inserted) > MaxRememberedCommandIds
                           THEN PruneProcessedCommands(inserted)
                           ELSE inserted]

----------------------------------------------------------------------------
(* UdpCommandListener: dispatch on the main thread *)

(* bindings configured in the inspector; _bindingLookup compares keys with
   StringComparer.OrdinalIgnoreCase *)
Bindings == {"Beep"}

FoldCase(s) == IF s = "Beep" THEN "beep" ELSE s

TryGetBindingExact(action) == {b \in Bindings : b = action}

TryGetBinding(action) == {b \in Bindings : FoldCase(b) = FoldCase(action)}

Event(kind, pending, what, to) ==
    [kind |-> kind, seq |-> pending.seq, what |-> what, to |-> to]

SendAcknowledgementToAll(pending) ==
    IF _ackClient = Null THEN <<>>
    ELSE <<Event("ack", pending, pending.Message.cmdId, "255.255.255.255:5000")>>

(* SendAcknowledgement: nothing without an ack socket; else one datagram
   {cmdId, status: "received", receivedTimestamp} to pending.RemoteEndPoint *)
SendAcknowledgement(pending) ==
    IF _ackClient = Null THEN <<>>
    ELSE <<Event("ack", pending, pending.Message.cmdId, pending.RemoteEndPoint)>>

DispatchCommandGenericWhenUnbound(pending) ==
    (IF TryGetBinding(pending.Message.action) # {}
     THEN <<Event("handler", pending,
                  CHOOSE b \in TryGetBinding(pending.Message.action) : TRUE, Null)>>
     ELSE <<Event("generic", pending, pending.Message.action, Null)>>)
    \o (IF sendAcknowledgement /\ pending.RemoteEndPoint # Null
        THEN SendAcknowledgement(pending)
        ELSE <<>>)

(* DispatchCommand: generic observers, then the binding if any, then the ack *)
DispatchCommand(pending) ==
    <<Event("generic", pending, pending.Message.action, Null)>>
    \o (IF TryGetBinding(pending.Message.action) # {}
        THEN <<Event("handler", pending,
                     CHOOSE b \in TryGetBinding(pending.Message.action) : TRUE, Null)>>
        ELSE <<>>)
    \o (IF sendAcknowledgement /\ pending.RemoteEndPoint # Null
        THEN SendAcknowledgement(pending)
        ELSE <<>>)

RECURSIVE DispatchAllNewestFirst(_)
DispatchAllNewestFirst(queue) ==
    IF queue = <<>> THEN <<>>
    ELSE DispatchAllNewestFirst(Tail(queue)) \o DispatchCommand(Head(queue))

RECURSIVE DispatchAll(_)
DispatchAll(queue) ==
    IF queue = <<>> THEN <<>>
    ELSE DispatchCommand(Head(queue)) \o DispatchAll(Tail(queue))

----------------------------------------------------------------------------
(* Environment: the datagrams that arrive and the clock *)

StartMillis == Big(1700000, 0)          \* 1_700_000_000_000 ms
TickMillis == 6 * 1000

(* The host tool at HostEndpoint signs with SenderSecret; the party at
   OtherEndpoint does not know it and sends unsigned or forged envelopes. *)
SenderSecret == "s3cret"
HostEndpoint == "10.0.0.7:5000"
OtherEndpoint == "10.0.0.8:5001"

Envelope(action, cmdId, signer) ==
    LET base == [action |-> action, timestamp |-> StartMillis]
        withId == IF cmdId = Null THEN base ELSE base @@ ("cmdId" :> cmdId)
        canonical == action \o "||" \o LongToString(StartMillis)
    IN IF signer = Null THEN withId
       ELSE withId @@ ("signature" :> Hmac(signer, canonical))

Datagrams ==
    {[kind |-> "json", json |-> Envelope(a, c, SenderSecret), remote |-> HostEndpoint] :
        a \in {"Beep", "Nope"}, c \in {Null, "c1"}}
    \cup {[kind |-> "json", json |-> Envelope("Beep", "c1", "guess!"), remote |-> OtherEndpoint],
          [kind |-> "json", json |-> Envelope("Nope", Null, Null), remote |-> OtherEndpoint],
          [kind |-> "json", json |-> [timestamp |-> StartMillis], remote |-> OtherEndpoint],
          [kind |-> "garbage", json |-> [timestamp |-> BigZero], remote |-> OtherEndpoint]}

(* inspector default of staleCommandWindowSeconds: 5f *)
DefaultStaleWindow == 5 * 1000

EmptyCache == [k \in {} |-> 0]

NoDatagram == [kind |-> "none", json |-> [timestamp |-> BigZero], remote |-> Null, seq |-> 0]

(* no datagram has reached the host tool yet *)
NoHostDatagram ==
    [kind |-> "none", action |-> Undefined, cmdId |-> Undefined,
     commandPort |-> Undefined, address |-> Null, port |-> 0, socket |-> 0]

(* the host tool before app.whenReady: let udpSocket = null, listenPort = 4949;
   the sockets created so far and the caller that created each, the number
   of ensureSocket calls, the number of datagrams received, the latest
   of them, the discovery responses sent for it and the number sent so far *)
HostOff ==
    [udpSocket |-> 0, listenPort |-> 4949, sockets |-> <<>>, callers |-> <<>>,
     calls |-> 0,
     received |-> 0, last |-> NoHostDatagram, responses |-> <<>>, answered |-> 0]

(* HostAnnouncementPayload; JsonUtility leaves an absent hostAddress null
   and an absent hostPort 0.  A null payload object reads as both absent. *)
NoPayload == [hostAddress |-> Null, hostPort |-> 0]

(* cachedEndpoint == null *)
NoEndpoint == [address |-> Null, port |-> 0]

(* the fields ApplyHostAnnouncement reads and writes *)
HostFields(address, port, endpoint, registered) ==
    [hostAddress |-> address, hostPort |-> port, cachedEndpoint |-> endpoint,
     hasSentRegistration |-> registered]

(* the outcome of the latest ApplyHostAnnouncement call, kept for reference:
   its arguments, its return value and the fields before and after it *)
NotApplied == [called |-> FALSE, ok |-> FALSE, payload |-> NoPayload,
               remote |-> Null,
               before |-> HostFields(Null, 0, NoEndpoint, FALSE),
               after |-> HostFields(Null, 0, NoEndpoint, FALSE)]

(* UdpClientReporter before OnEnable: the serialized fields, the endpoint
   cache, the registration flag, whether HeartbeatLoop runs (loops: how many
   HeartbeatLoop coroutines have been started and not stopped), the envelopes
   sent so far, the position of InitializeRoutine (pc), the attempt index
   and result of DiscoverHostAsync, the discovery sockets created so far,
   the one in use (client, 0 = none), and the datagrams in flight to them *)
ReporterOff ==
    [hostAddress |-> "auto", hostPort |-> 4949, discoveryPort |-> 4949,
     autoDiscoverHost |-> TRUE, registerOnEnable |-> TRUE, sharedSecret |-> "",
     cachedEndpoint |-> NoEndpoint, cachedHostAddress |-> Null,
     hasSentRegistration |-> FALSE, heartbeatRoutine |-> FALSE, loops |-> 0,
     sent |-> <<>>, reports |-> 0, pc |-> "off",
     attempt |-> 0, result |-> FALSE, cycles |-> 0, probes |-> 0,
     sockets |-> <<>>, client |-> 0, replies |-> {},
     replied |-> 0, announced |-> 0,
     probedResolved |-> FALSE, applied |-> NotApplied,
     consumed |-> [by |-> 0, answers |-> 0]]

(* The dashboard of the host tool (renderer.js).  clients is the roster Map
   (roster key -> entry) and selectedDevices the Set of selected keys; clock
   is the number of milliseconds Date.now() has advanced since the page was
   loaded; displayed[k] tells whether the last renderDeviceGrid drew the card
   of k as online, displayedAt is the Date.now() that render read and stats
   what updateDeviceStats counted; batch is the multi-target send of the form
   submit handler.  everOffline, lastUpsert and the counters keep a record of
   what has happened. *)
NoPort == -1

NoRecord ==
    [deviceId |-> Undefined, deviceName |-> Undefined, platform |-> Undefined,
     buildVersion |-> Undefined, ipv4 |-> Undefined, scene |-> Undefined,
     commandPort |-> NoPort]

NoUpsert ==
    [applied |-> FALSE, key |-> Null, address |-> Null, port |-> 0,
     record |-> NoRecord, created |-> FALSE, at |-> 0]

NoBatch ==
    [pc |-> "idle", targets |-> <<>>, index |-> 0, successCount |-> 0,
     failures |-> <<>>, sends |-> <<>>, status |-> "", submits |-> 0]

RendererOff ==
    [clients |-> <<>>, selectedDevices |-> {}, clock |-> 0, ticks |-> 0,
     packets |-> 0, displayed |-> <<>>, displayedAt |-> 0,
     stats |-> [online |-> 0, offline |-> 0], everOffline |-> {},
     lastUpsert |-> NoUpsert, batch |-> NoBatch]

----------------------------------------------------------------------------
(* State machine of the listener *)

Init ==
    /\ sharedSecret \in {"", SenderSecret}
    /\ staleCommandWindowSeconds = DefaultStaleWindow
    /\ sendAcknowledgement \in BOOLEAN
    /\ enabled = FALSE
    /\ mainPc = "idle"
    /\ _isListening = FALSE
    /\ _receiveClient = Null
    /\ _ackClient = Null
    /\ listenerPc = "none"
    /\ buffer = NoDatagram
    /\ orphans = {}
    /\ _pendingCommands = <<>>
    /\ _processedCommands = EmptyCache
    /\ now = StartMillis
    /\ received = 0
    /\ verdicts = <<>>
    /\ events = <<>>
    /\ sIn = Null
    /\ sOut = Null
    /\ burst = 0
    /\ hostMain = HostOff
    /\ udpReporter = ReporterOff
    /\ renderer = RendererOff

config == <<sharedSecret, staleCommandWindowSeconds, sendAcknowledgement>>
peers == <<hostMain, udpReporter, renderer>>
pure == <<sIn, sOut, burst>>

(* One pass of the ListenLoop body after Receive returned d:
   ParseMessage, IsAuthorized, IsStale, RegisterCommandId, Enqueue *)
Verdict(d) ==
    IF ~ParseOk(d) THEN "malformed"
    ELSE LET command == FromJson(d.json) IN
         IF ~IsAuthorized(command) THEN "unauthorized"
         ELSE IF IsStaleThrows(command) THEN "exception"
         ELSE IF IsStale(command) THEN "stale"
         ELSE IF ~RegisterCommandId(command).result THEN "duplicate"
         ELSE "admitted"

PendingCommand(d) ==
    [Message |-> FromJson(d.json), RemoteEndPoint |-> d.remote, seq |-> d.seq]

ProcessDatagramRegisterFirst(d) ==
    /\ _processedCommands' =
          IF ParseOk(d) THEN RegisterCommandId(FromJson(d.json)).processed
          ELSE _processedCommands
    /\ _pendingCommands' =
          IF Verdict(d) = "admitted"
          THEN Append(_pendingCommands, PendingCommand(d))
          ELSE _pendingCommands
    /\ verdicts' = [verdicts EXCEPT ![d.seq] = Verdict(d)]

ProcessDatagram(d) ==
    /\ _processedCommands' =
          IF Verdict(d) \in {"admitted", "duplicate"}
          THEN RegisterCommandId(FromJson(d.json)).processed
          ELSE _processedCommands
    /\ _pendingCommands' =
          IF Verdict(d) = "admitted"
          THEN Append(_pendingCommands, PendingCommand(d))
          ELSE _pendingCommands
    /\ verdicts' = [verdicts EXCEPT ![d.seq] = Verdict(d)]

(* a StartListening whose catch block does not call CleanupSockets and goes
   on to start the receive thread *)
StartListeningEffectNoCleanup(bindOk) ==
    IF _isListening
    THEN UNCHANGED <<_isListening, _receiveClient, _ackClient, listenerPc>>
    ELSE /\ _receiveClient' = "open"
         /\ _ackClient' = IF bindOk THEN "open" ELSE Null
         /\ listenerPc' = "receive"
         /\ _isListening' = TRUE

(* StartListening: binds the receive socket, creates the ack socket and
   starts the receive thread; a failed bind cleans up and returns *)
StartListeningEffect(bindOk) ==
    IF _isListening
    THEN UNCHANGED <<_isListening, _receiveClient, _ackClient, listenerPc>>
    ELSE IF ~bindOk
    THEN /\ _receiveClient' = Null
         /\ _ackClient' = Null
         /\ UNCHANGED <<_isListening, listenerPc>>
    ELSE /\ _receiveClient' = "open"
         /\ _ackClient' = "open"
         /\ listenerPc' = "receive"
         /\ _isListening' = TRUE

(* StopListening: cancel, close the receive socket, Join(100), dispose both
   sockets, clear the processed-id cache.  A thread blocked in Receive exits;
   a thread still processing a datagram when the join times out keeps it. *)
StopListeningEffect ==
    IF ~_isListening
    THEN UNCHANGED <<_isListening, _receiveClient, _ackClient, listenerPc,
                     buffer, orphans, _processedCommands>>
    ELSE /\ _receiveClient' = Null
         /\ _ackClient' = Null
         /\ _isListening' = FALSE
         /\ listenerPc' = "none"
         /\ buffer' = NoDatagram
         /\ orphans' = IF listenerPc = "process" THEN orphans \cup {buffer} ELSE orphans
         /\ _processedCommands' = EmptyCache

OnEnable ==
    /\ mainPc = "idle"
    /\ ~enabled
    /\ enabled' = TRUE
    /\ \E bindOk \in BOOLEAN : StartListeningEffect(bindOk)
    /\ UNCHANGED <<config, mainPc, buffer, orphans, _pendingCommands,
                   _processedCommands, now, received, verdicts, events, pure, peers>>

StartListening ==
    /\ mainPc = "idle"
    /\ ~_isListening
    /\ \E bindOk \in BOOLEAN : StartListeningEffect(bindOk)
    /\ UNCHANGED <<config, enabled, mainPc, buffer, orphans, _pendingCommands,
                   _processedCommands, now, received, verdicts, events, pure, peers>>

StopListening ==
    /\ mainPc = "idle"
    /\ _isListening
    /\ StopListeningEffect
    /\ UNCHANGED <<config, enabled, mainPc, _pendingCommands, now, received,
                   verdicts, events, pure, peers>>

(* OnDisable is StopListening() followed by DrainPendingCommands(); the
   receive thread may run between the two calls *)
OnDisableStop ==
    /\ mainPc = "idle"
    /\ enabled
    /\ StopListeningEffect
    /\ mainPc' = "drain"
    /\ UNCHANGED <<config, enabled, _pendingCommands, now, received, verdicts,
                   events, pure, peers>>

OnDisableDrain ==
    /\ mainPc = "drain"
    /\ _pendingCommands' = <<>>
    /\ enabled' = FALSE
    /\ mainPc' = "idle"
    /\ UNCHANGED <<config, _isListening, _receiveClient, _ackClient, listenerPc,
                   buffer, orphans, _processedCommands, now, received, verdicts,
                   events, pure, peers>>

(* Update: while (_pendingCommands.TryDequeue(out pending)) DispatchCommand(pending) *)
Update ==
    /\ mainPc = "idle"
    /\ enabled
    /\ _pendingCommands # <<>>
    /\ events' = events \o DispatchAll(_pendingCommands)
    /\ _pendingCommands' = <<>>
    /\ UNCHANGED <<config, enabled, mainPc, _isListening, _receiveClient,
                   _ackClient, listenerPc, buffer, orphans, _processedCommands,
                   now, received, verdicts, pure, peers>>

(* _receiveClient.Receive(ref remoteEndpoint) returns a datagram *)
ReceiveFrom(arriving) ==
    /\ listenerPc = "receive"
    /\ received < MaxDatagrams
    /\ \E d \in arriving :
          buffer' = d @@ ("seq" :> received + 1)
    /\ received' = received + 1
    /\ verdicts' = Append(verdicts, "pending")
    /\ listenerPc' = "process"
    /\ UNCHANGED <<config, enabled, mainPc, _isListening, _receiveClient,
                   _ackClient, orphans, _pendingCommands, _processedCommands,
                   now, events, pure, peers>>

Receive == ReceiveFrom(Datagrams)

Process ==
    /\ listenerPc = "process"
    /\ ProcessDatagram(buffer)
    /\ buffer' = NoDatagram
    /\ listenerPc' = "receive"
    /\ UNCHANGED <<config, enabled, mainPc, _isListening, _receiveClient,
                   _ackClient, orphans, now, received, events, pure, peers>>

(* a cancelled thread finishes the datagram it holds, then leaves the loop *)
ProcessOrphan ==
    /\ \E d \in orphans :
          /\ ProcessDatagram(d)
          /\ orphans' = orphans \ {d}
    /\ UNCHANGED <<config, enabled, mainPc, _isListening, _receiveClient,
                   _ackClient, listenerPc, buffer, now, received, events, pure, peers>>

Tick ==
    /\ BigToInt(BigSub(now, StartMillis)) < MaxTicks * TickMillis
    /\ now' = BigAdd(now, TickMillis)
    /\ UNCHANGED <<config, enabled, mainPc, _isListening, _receiveClient,
                   _ackClient, listenerPc, buffer, orphans, _pendingCommands,
                   _processedCommands, received, verdicts, events, pure, peers>>

Next ==
    \/ OnEnable
    \/ StartListening
    \/ StopListening
    \/ OnDisableStop
    \/ OnDisableDrain
    \/ Update
    \/ Receive
    \/ Process
    \/ ProcessOrphan
    \/ Tick

Spec == Init /\ [][Next]_vars

----------------------------------------------------------------------------
(* Senders: the host tool's udp:send handler and UdpClientReporter.SendCommand *)

(* udp:send: the message object built from the request; a field that is not
   assigned is undefined *)
HostMessage(request) ==
    LET payloadString == IF request.payload = Null THEN "" ELSE request.payload
    IN [action    |-> request.action,
        timestamp |-> request.timestamp,
        payload   |-> IF Len(payloadString) > 0 \/ request.forcePayloadField
                      THEN payloadString ELSE Undefined]

HostCanonicalNoCoalesce(message) ==
    TemplateJs(message.action) \o "|" \o TemplateJs(message.payload)
        \o "|" \o LongToString(message.timestamp)

(* `${message.action}|${message.payload ?? ''}|${message.timestamp}` *)
HostCanonical(message) ==
    TemplateJs(message.action) \o "|"
        \o TemplateJs(IF message.payload = Undefined THEN "" ELSE message.payload)
        \o "|" \o LongToString(message.timestamp)

(* JSON.stringify(message): undefined fields are left out *)
HostWire(request) ==
    LET message == HostMessage(request)
        base == [action |-> message.action, timestamp |-> message.timestamp]
        withPayload == IF message.payload = Undefined THEN base
                       ELSE base @@ ("payload" :> message.payload)
    IN IF request.secret # ""
       THEN withPayload @@ ("signature" :> Hmac(request.secret, HostCanonical(message)))
       ELSE withPayload

(* SendCommand: new UdpCommandMessage { action, timestamp }, payload set when
   a payload object is given *)
ReporterMessage(request) ==
    [cmdId |-> Null, action |-> request.action, payload |-> request.payload,
     timestamp |-> request.timestamp, signature |-> Null]

(* ComputeSignature: $"{message.action}|{message.payload ?? string.Empty}|{message.timestamp}" *)
ReporterCanonical(message) ==
    InterpolateCs(message.action) \o "|"
        \o InterpolateCs(IF message.payload = Null THEN "" ELSE message.payload)
        \o "|" \o LongToString(message.timestamp)

ComputeSignature(secret, message) == Hmac(secret, ReporterCanonical(message))

(* JsonUtility.ToJson(message): every field is written, a null string as "" *)
ReporterWire(request) ==
    LET message == ReporterMessage(request)
        signature == IF ~IsNullOrEmpty(request.secret)
                     THEN ComputeSignature(request.secret, message) ELSE Null
    IN [cmdId     |-> InterpolateCs(message.cmdId),
        action    |-> InterpolateCs(message.action),
        payload   |-> InterpolateCs(message.payload),
        timestamp |-> message.timestamp,
        signature |-> InterpolateCs(signature)]

SenderWire(request) ==
    IF request.sender = "host" THEN HostWire(request) ELSE ReporterWire(request)

----------------------------------------------------------------------------
(* Specification SpecAuth: an envelope is signed by a sender, possibly altered
   in transit, and verified by the listener *)

AuthActions == {"Set", "Set|x"}
AuthPayloads == {Null, "y", "x|y"}
AuthTimestamps == {StartMillis, Big(0, 5)}
AuthSecrets == {"", SenderSecret, "guess!"}

SignRequests ==
    [sender : {"host", "reporter"}, action : AuthActions, payload : AuthPayloads,
     forcePayloadField : BOOLEAN, timestamp : AuthTimestamps, secret : AuthSecrets]

InitAuth ==
    /\ sharedSecret \in {"", SenderSecret}
    /\ staleCommandWindowSeconds = DefaultStaleWindow
    /\ sendAcknowledgement = TRUE
    /\ enabled = FALSE
    /\ mainPc = "idle"
    /\ _isListening = FALSE
    /\ _receiveClient = Null
    /\ _ackClient = Null
    /\ listenerPc = "none"
    /\ buffer = NoDatagram
    /\ orphans = {}
    /\ _pendingCommands = <<>>
    /\ _processedCommands = EmptyCache
    /\ now = StartMillis
    /\ received = 0
    /\ verdicts = <<>>
    /\ events = <<>>
    /\ sIn \in SignRequests
    /\ sOut = [stage |-> "request"]
    /\ burst = 0
    /\ hostMain = HostOff
    /\ udpReporter = ReporterOff
    /\ renderer = RendererOff

listenerState ==
    <<enabled, mainPc, _isListening, _receiveClient, _ackClient, listenerPc,
      buffer, orphans, _pendingCommands, _processedCommands, now, received,
      verdicts, events>>

(* the sender builds, signs and serialises the envelope *)
AuthSend ==
    /\ sOut.stage = "request"
    /\ sOut' = [stage |-> "wire", sent |-> SenderWire(sIn), json |-> SenderWire(sIn)]
    /\ UNCHANGED <<config, listenerState, sIn, burst, peers>>

WithField(json, f, v) ==
    IF v = Null THEN [g \in DOMAIN json \ {f} |-> json[g]]
    ELSE [g \in DOMAIN json \cup {f} |-> IF g = f THEN v ELSE json[g]]

(* the datagram is altered on the network: any of action, payload, timestamp
   and signature is replaced *)
AuthTamper ==
    /\ sOut.stage = "wire"
    /\ \E a \in AuthActions, p \in AuthPayloads \cup {""}, t \in AuthTimestamps,
          g \in {"keep", "drop", "empty", "resign"} :
          LET fields == [WithField(WithField(sOut.sent, "action", a), "payload", p)
                            EXCEPT !["timestamp"] = t]
              kept == JsonString(sOut.sent, "signature")
              sig == IF g = "keep" THEN kept
                     ELSE IF g = "drop" THEN Null
                     ELSE IF g = "empty" THEN ""
                     ELSE Hmac("guess!", ListenerCanonical(FromJson(fields)))
          IN sOut' = [stage |-> "tampered", sent |-> sOut.sent,
                      json |-> WithField(fields, "signature", sig)]
    /\ UNCHANGED <<config, listenerState, sIn, burst, peers>>

(* the listener parses the datagram and runs IsAuthorized *)
AuthVerify ==
    /\ sOut.stage \in {"wire", "tampered"}
    /\ sOut' = [stage |-> "verified", sent |-> sOut.sent, json |-> sOut.json,
                ok |-> IsAuthorized(FromJson(sOut.json))]
    /\ UNCHANGED <<config, listenerState, sIn, burst, peers>>

NextAuth ==
    \/ AuthSend
    \/ AuthTamper
    \/ AuthVerify

SpecAuth == InitAuth /\ [][NextAuth]_vars

----------------------------------------------------------------------------
(* Claims about authentication, checked under SpecAuth *)

(* the canonical signing string as the protocol defines it:
   action + "|" + (payload or empty) + "|" + timestamp *)
ProtocolCanonical(action, payload, timestamp) ==
    action \o "|" \o (IF payload \in {Null, Undefined} THEN "" ELSE payload)
           \o "|" \o LongToString(timestamp)

WireCanonical(json) ==
    ProtocolCanonical(json["action"], JsonString(json, "payload"), json["timestamp"])

PayloadOrEmpty(json) ==
    IF JsonString(json, "payload") = Null THEN "" ELSE json["payload"]

ChangedFields(a, b) ==
    {f \in {"action", "payload", "timestamp"} :
        IF f = "payload" THEN PayloadOrEmpty(a) # PayloadOrEmpty(b) ELSE a[f] # b[f]}

SignatureChanged(a, b) == JsonString(a, "signature") # JsonString(b, "signature")

(* the sender signed with the secret the listener is configured with *)
SignedWithListenerSecret ==
    /\ sOut.stage = "verified"
    /\ sharedSecret # ""
    /\ sIn.secret = sharedSecret

(* C3: IsAuthorized accepts every envelope when no shared secret is
   configured, whatever its signature field holds; with a secret configured
   it rejects every envelope whose signature is absent or empty. *)
C3_VerifyContract ==
    sOut.stage = "verified" =>
        /\ sharedSecret = "" => sOut.ok
        /\ (sharedSecret # "" /\ IsNullOrEmpty(JsonString(sOut.json, "signature")))
              => ~sOut.ok

(* a forged signature is accepted by a listener without a secret *)
C3_Witness ==
    /\ sOut.stage = "verified"
    /\ sharedSecret = ""
    /\ ~IsNullOrEmpty(JsonString(sOut.json, "signature"))
    /\ sOut.json # sOut.sent
    /\ sOut.ok

(* C4 as stated: an envelope signed with S is accepted by a listener
   configured with S exactly when neither its signature nor any of action,
   payload, timestamp was changed after signing. *)
C4_AnyChangeRejected ==
    SignedWithListenerSecret =>
        (sOut.ok <=> (~SignatureChanged(sOut.sent, sOut.json)
                      /\ ChangedFields(sOut.sent, sOut.json) = {}))

(* What IsAuthorized does guarantee in the setting of C4: the untouched
   envelope is accepted; a changed signature is rejected; a change of exactly
   one of action, payload, timestamp is rejected; in general the envelope is
   accepted exactly when the signature and the string
   action|payload|timestamp are both unchanged, so that moving text across a
   "|" between action and payload goes unnoticed. *)
C4_SignVerify ==
    SignedWithListenerSecret =>
        /\ sOut.json = sOut.sent => sOut.ok
        /\ SignatureChanged(sOut.sent, sOut.json) => ~sOut.ok
        /\ Cardinality(ChangedFields(sOut.sent, sOut.json)) = 1 => ~sOut.ok
        /\ sOut.ok <=> (~SignatureChanged(sOut.sent, sOut.json)
                        /\ WireCanonical(sOut.json) = WireCanonical(sOut.sent))

(* exactly one field was changed after signing and the listener rejects *)
C4_Witness ==
    /\ SignedWithListenerSecret
    /\ ~SignatureChanged(sOut.sent, sOut.json)
    /\ ChangedFields(sOut.sent, sOut.json) = {"payload"}
    /\ ~sOut.ok

(* C5: host tool, reporter and listener compute the same canonical string
   action|payload-or-empty|timestamp for every envelope, with the payload
   absent and with the payload empty. *)
C5_CanonicalAgree ==
    LET host == HostMessage(sIn)
        reporter == ReporterMessage(sIn)
    IN /\ HostCanonical(host)
            = ProtocolCanonical(host.action, host.payload, host.timestamp)
       /\ ReporterCanonical(reporter)
            = ProtocolCanonical(reporter.action, reporter.payload, reporter.timestamp)
       /\ HostCanonical(host) = ReporterCanonical(reporter)
       /\ sOut.stage # "request" =>
            /\ ListenerCanonical(FromJson(HostWire(sIn))) = HostCanonical(host)
            /\ ListenerCanonical(FromJson(ReporterWire(sIn))) = ReporterCanonical(reporter)
            /\ ListenerCanonical(FromJson(sOut.json)) = WireCanonical(sOut.json)

(* an envelope without payload field went from the host tool to the listener *)
C5_Witness ==
    /\ sOut.stage = "verified"
    /\ sIn.sender = "host"
    /\ "payload" \notin DOMAIN sOut.sent
    /\ sOut.json = sOut.sent
    /\ sIn.secret = sharedSecret
    /\ sharedSecret # ""
    /\ sOut.ok

----------------------------------------------------------------------------
(* Specification SpecStale: IsStale applied to one envelope under a drawn
   window, clock and timestamp *)

TenBillion == Big(10000, 0)                     \* 10_000_000_000

(* clocks: 2023, ten seconds after 10^10 ms (1970), five seconds after
   10^10 s (2286) *)
StaleClocks == {StartMillis, Big(10000, 10000), Big(10000000, 5000)}

(* float windows in thousandths of a second: -1, 0 (disabled), 0.5, 5 *)
StaleWindows == {0 - 1000, 0, 500, DefaultStaleWindow}

StaleTimestamps(clock, window) ==
    {BigZero, Big(0 - 1, Base - 1), Big(0, 5),
     BigSub(TenBillion, Big(0, 1)), TenBillion,
     clock, BigSub(clock, Norm(0, window)), BigSub(clock, Norm(0, window + 1)),
     BigAdd(clock, 1),
     BigDiv1000(clock), BigDiv1000(BigSub(clock, Norm(0, window))),
     BigAdd(BigDiv1000(BigSub(clock, Norm(0, window))), 0 - 1),
     BigAdd(MaxUnixMilliseconds, 1)}

InitStale ==
    /\ sharedSecret = ""
    /\ staleCommandWindowSeconds \in StaleWindows
    /\ sendAcknowledgement = TRUE
    /\ enabled = FALSE
    /\ mainPc = "idle"
    /\ _isListening = FALSE
    /\ _receiveClient = Null
    /\ _ackClient = Null
    /\ listenerPc = "none"
    /\ buffer = NoDatagram
    /\ orphans = {}
    /\ _pendingCommands = <<>>
    /\ _processedCommands = EmptyCache
    /\ now \in StaleClocks
    /\ received = 0
    /\ verdicts = <<>>
    /\ events = <<>>
    /\ sIn \in {[cmdId |-> Null, action |-> "Beep", payload |-> Null,
                 timestamp |-> t, signature |-> Null] :
                    t \in StaleTimestamps(now, staleCommandWindowSeconds)}
    /\ sOut = [stage |-> "envelope"]
    /\ burst = 0
    /\ hostMain = HostOff
    /\ udpReporter = ReporterOff
    /\ renderer = RendererOff

StaleCheck ==
    /\ sOut.stage = "envelope"
    /\ sOut' = [stage |-> "checked",
                stale |-> IsStale(sIn),
                throws |-> IsStaleThrows(sIn),
                age |-> IF StaleCheckApplies(sIn) THEN AgeOf(sIn) ELSE BigZero,
                verdict |-> Verdict([kind |-> "json", remote |-> HostEndpoint, seq |-> 1,
                                     json |-> [action |-> sIn.action,
                                               timestamp |-> sIn.timestamp]])]
    /\ UNCHANGED <<config, listenerState, sIn, burst, peers>>

NextStale == StaleCheck

SpecStale == InitStale /\ [][NextStale]_vars

----------------------------------------------------------------------------
(* Claims about staleness, checked under SpecStale *)

BigLt(a, b) == BigGt(b, a)

(* the envelope's age in thousandths of a second, reading the timestamp as
   Unix seconds below 10_000_000_000 and as Unix milliseconds from there on *)
ProtocolAge(timestamp) ==
    IF BigLt(timestamp, TenBillion)
    THEN BigSub(now, BigMul1000(timestamp))
    ELSE BigSub(now, timestamp)

AgeExceedsWindow(timestamp) ==
    BigGt(ProtocolAge(timestamp), Norm(0, staleCommandWindowSeconds))

AgeEqualsWindow(timestamp) ==
    ProtocolAge(timestamp) = Norm(0, staleCommandWindowSeconds)

(* C6 as stated: an envelope is rejected as stale exactly when the window is
   positive, its timestamp is set (not 0) and its age exceeds the window. *)
C6_StaleWhenSet ==
    sOut.stage = "checked" =>
        (sOut.stale <=> (/\ staleCommandWindowSeconds > 0
                         /\ sIn.timestamp # BigZero
                         /\ AgeExceedsWindow(sIn.timestamp)))

(* C6 amended: an envelope is rejected as stale exactly when the window is
   positive, its timestamp is positive and its age exceeds the window; an
   envelope whose age equals the window is admitted; with a window of zero
   or less nothing is rejected as stale. *)
C6_StaleBoundary ==
    sOut.stage = "checked" =>
        /\ sOut.stale <=> (/\ staleCommandWindowSeconds > 0
                           /\ IsPositive(sIn.timestamp)
                           /\ AgeExceedsWindow(sIn.timestamp))
        /\ (sOut.verdict = "stale") <=> sOut.stale
        /\ (staleCommandWindowSeconds > 0 /\ AgeEqualsWindow(sIn.timestamp))
              => sOut.verdict = "admitted"
        /\ staleCommandWindowSeconds <= 0 => sOut.verdict = "admitted"

(* an envelope exactly as old as the window went through the check *)
C6_Witness ==
    /\ sOut.stage = "checked"
    /\ staleCommandWindowSeconds > 0
    /\ IsPositive(sIn.timestamp)
    /\ AgeEqualsWindow(sIn.timestamp)
    /\ sOut.verdict = "admitted"

(* C7: the age computation reads a timestamp below 10_000_000_000 as Unix
   seconds and a timestamp of 10_000_000_000 or more as Unix milliseconds;
   ten seconds after 10^10 ms, 9_999_999_999 lies in the future and
   10_000_000_000 is ten seconds old. *)
C7_DualUnit ==
    (sOut.stage = "checked" /\ StaleCheckApplies(sIn)) =>
        /\ sOut.age = ProtocolAge(sIn.timestamp)
        /\ (now = Big(10000, 10000) /\ staleCommandWindowSeconds = DefaultStaleWindow) =>
              /\ sIn.timestamp = BigSub(TenBillion, Big(0, 1)) => ~sOut.stale
              /\ sIn.timestamp = TenBillion => sOut.stale

(* 9_999_999_999 was checked ten seconds after 10^10 ms and found fresh *)
C7_Witness ==
    /\ sOut.stage = "checked"
    /\ now = Big(10000, 10000)
    /\ staleCommandWindowSeconds = DefaultStaleWindow
    /\ sIn.timestamp = Big(9999, 999999)
    /\ ~sOut.stale

----------------------------------------------------------------------------
(* The processed-id cache on its own: the receive thread registers the
   cmdIds of envelopes that passed IsAuthorized and IsStale *)

MaxBurst == 3
MaxCacheTicks == 1
CacheTickMillis == 2 * 1000

CacheWindows == {0, 1000, DefaultStaleWindow}

(* the number of cmdIds registered before the run starts *)
Registered == MaxRememberedCommandIds - 1

(* the cache after construction, and the cache after envelopes with the
   cmdIds "1" .. "127" were admitted within the first second *)
StartCaches ==
    {EmptyCache,
     [k \in {ToString(i) : i \in 1..Registered} |-> BigToInt(BigDiv1000(StartMillis))]}

InitCache ==
    /\ sharedSecret = ""
    /\ staleCommandWindowSeconds \in CacheWindows
    /\ sendAcknowledgement = TRUE
    /\ enabled = FALSE
    /\ mainPc = "idle"
    /\ _isListening = FALSE
    /\ _receiveClient = Null
    /\ _ackClient = Null
    /\ listenerPc = "none"
    /\ buffer = NoDatagram
    /\ orphans = {}
    /\ _pendingCommands = <<>>
    /\ _processedCommands \in StartCaches
    /\ now = StartMillis
    /\ received = 0
    /\ verdicts = <<>>
    /\ events = <<>>
    /\ sIn = [cmdId |-> Null]
    /\ sOut = [stage |-> "idle"]
    /\ burst = 0
    /\ hostMain = HostOff
    /\ udpReporter = ReporterOff
    /\ renderer = RendererOff

cacheFrame ==
    <<config, enabled, mainPc, _isListening, _receiveClient, _ackClient,
      listenerPc, buffer, orphans, _pendingCommands, received, verdicts, events,
      peers>>

CacheRegister(cmdId) ==
    /\ sIn' = [cmdId |-> cmdId]
    /\ sOut' = [stage |-> "registered",
                result |-> RegisterCommandId([cmdId |-> cmdId]).result]
    /\ _processedCommands' = RegisterCommandId([cmdId |-> cmdId]).processed

(* an envelope with a cmdId not used before; burst counts the new ids *)
CacheRegisterFresh ==
    /\ burst < MaxBurst
    /\ CacheRegister(ToString(Registered + burst + 1))
    /\ burst' = burst + 1
    /\ UNCHANGED <<cacheFrame, now>>

(* an envelope repeating the oldest or the newest cmdId of the run *)
CacheRegisterRepeat ==
    /\ \E cmdId \in {"1", ToString(Registered + burst)} : CacheRegister(cmdId)
    /\ UNCHANGED <<cacheFrame, now, burst>>

(* an envelope without a cmdId *)
CacheRegisterAnonymous ==
    /\ \E cmdId \in {Null, ""} : CacheRegister(cmdId)
    /\ UNCHANGED <<cacheFrame, now, burst>>

CacheTick ==
    /\ BigToInt(BigSub(now, StartMillis)) < MaxCacheTicks * CacheTickMillis
    /\ now' = BigAdd(now, CacheTickMillis)
    /\ UNCHANGED <<cacheFrame, _processedCommands, sIn, sOut, burst>>

NextCache ==
    \/ CacheRegisterFresh
    \/ CacheRegisterRepeat
    \/ CacheRegisterAnonymous
    \/ CacheTick

SpecCache == InitCache /\ [][NextCache]_vars

----------------------------------------------------------------------------
(* Claims about duplicate suppression, checked under SpecCache *)

CacheSize == Cardinality(DOMAIN _processedCommands)

(* a step in which RegisterCommandId ran on an envelope with a cmdId *)
RegisteredId ==
    /\ now' = now
    /\ <<sIn, sOut, _processedCommands, burst>>' # <<sIn, sOut, _processedCommands, burst>>
    /\ ~IsNullOrEmpty(sIn'.cmdId)

C1_Step ==
    RegisteredId =>
        /\ burst' # burst => sOut'.result
        /\ sOut'.result <=> sIn'.cmdId \notin DOMAIN _processedCommands
        /\ sIn'.cmdId \in DOMAIN _processedCommands'
        /\ \A k \in DOMAIN _processedCommands \ DOMAIN _processedCommands' :
              /\ CacheSize >= MaxRememberedCommandIds
              /\ _processedCommands[k] < NowSeconds - 1

(* C1: among the envelopes carrying the same non-empty cmdId the first is
   admitted and every later one is rejected for as long as the cmdId is in
   the processed-id cache; an id leaves the cache only by pruning. *)
C1_FirstAdmittedRestRejected == [][C1_Step]_vars

(* a repeated cmdId was rejected in a cache that has pruned another id *)
C1_Witness ==
    /\ sOut.stage = "registered"
    /\ sIn.cmdId = ToString(Registered + burst)
    /\ ~sOut.result
    /\ burst > 1
    /\ "1" \notin DOMAIN _processedCommands
    /\ sIn.cmdId \in DOMAIN _processedCommands

(* C8: the processed-id cache never holds more than 128 entries plus the one
   insertion that triggers pruning. *)
C8_CacheBounded == CacheSize <= MaxRememberedCommandIds + 1

----------------------------------------------------------------------------
(* Claims about the listener, checked under Spec *)

EventsOf(es) == {es[i] : i \in DOMAIN es}

QueueOf(q) == {q[i] : i \in DOMAIN q}

(* the events the step appended *)
NewEvents == {events'[i] : i \in (DOMAIN events') \ (DOMAIN events)}

(* the datagrams a receive thread holds and has not yet judged *)
InHand == {d \in {buffer} \cup orphans : d.kind # "none"}

(* the datagrams the step judged *)
Judged == {d \in InHand : verdicts'[d.seq] # verdicts[d.seq]}

(* the envelope parses, and its signature is absent or is not the HMAC of
   action|payload|timestamp under the listener's secret *)
SignatureMissingOrWrong(d) ==
    /\ d.kind = "json"
    /\ ~IsNullOrEmpty(JsonString(d.json, "action"))
    /\ \/ IsNullOrEmpty(JsonString(d.json, "signature"))
       \/ d.json["signature"] # Hmac(sharedSecret, WireCanonical(d.json))

C2_State ==
    \A n \in DOMAIN verdicts :
        verdicts[n] = "unauthorized" =>
            /\ \A p \in QueueOf(_pendingCommands) : p.seq # n
            /\ \A e \in EventsOf(events) : e.seq # n

C2_Step ==
    /\ \A n \in DOMAIN verdicts : verdicts[n] # "pending" => verdicts'[n] = verdicts[n]
    /\ \A d \in Judged :
          (sharedSecret # "" /\ SignatureMissingOrWrong(d)) =>
              /\ verdicts'[d.seq] = "unauthorized"
              /\ _pendingCommands' = _pendingCommands
              /\ events' = events

(* C2: with a shared secret configured, an envelope whose signature is
   missing or does not match is judged unauthorized for good: it is never
   enqueued, never reaches CommandReceived or a handler, never is
   acknowledged. *)
C2_UnauthorizedNeverProcessed == []C2_State /\ [][C2_Step]_vars

(* a forged envelope was dropped while another envelope was dispatched *)
C2_Witness ==
    /\ sharedSecret # ""
    /\ \E n \in DOMAIN verdicts : verdicts[n] = "unauthorized"
    /\ \E e \in EventsOf(events) : e.kind = "handler"

Acked(n) == \E e \in EventsOf(events) : e.kind = "ack" /\ e.seq = n

(* C9 as stated, in its safety form: with acknowledgement enabled an
   admitted envelope that has not been acknowledged is still waiting in the
   queue; once it has left the queue nothing acknowledges it. *)
C9_AdmittedIsAcknowledged ==
    sendAcknowledgement =>
        \A n \in DOMAIN verdicts :
            verdicts[n] = "admitted" =>
                \/ Acked(n)
                \/ \E p \in QueueOf(_pendingCommands) : p.seq = n

C9_State ==
    /\ _isListening => _ackClient = "open"
    /\ \A p \in QueueOf(_pendingCommands) :
          verdicts[p.seq] = "admitted" /\ p.RemoteEndPoint # Null

C9_Step ==
    (events' # events /\ sendAcknowledgement /\ _ackClient = "open") =>
        \A p \in QueueOf(_pendingCommands) :
            \E e \in NewEvents :
                e.kind = "ack" /\ e.seq = p.seq /\ e.to = p.RemoteEndPoint

(* What DispatchCommand does guarantee in the setting of C9: with
   acknowledgement enabled, every envelope that Update dispatches while the
   acknowledgement socket is open (which it is while the listener is
   listening) is acknowledged to the sender's observed endpoint, with or
   without a handler for its action and with or without a cmdId. *)
C9_DispatchedIsAcknowledged == []C9_State /\ [][C9_Step]_vars

(* an envelope without cmdId and without handler was acknowledged *)
C9_Witness ==
    \E e \in EventsOf(events) :
        /\ e.kind = "ack"
        /\ e.what = Null
        /\ e.to = HostEndpoint
        /\ \A h \in EventsOf(events) : h.seq = e.seq => h.kind # "handler"

C10_State ==
    /\ \A i, j \in DOMAIN events :
          (events[i].kind = "ack" /\ events[j].kind = "ack"
              /\ events[i].seq = events[j].seq) => i = j
    /\ \A e \in EventsOf(events) :
          e.kind = "ack" => verdicts[e.seq] = "admitted"
    /\ \A i, j \in DOMAIN _pendingCommands :
          _pendingCommands[i].seq = _pendingCommands[j].seq => i = j
    /\ \A p \in QueueOf(_pendingCommands) : ~Acked(p.seq)

C10_Step ==
    /\ \A d \in Judged :
          \A p \in QueueOf(_pendingCommands') :
              p.seq = d.seq => p.RemoteEndPoint = d.remote
    /\ \A e \in NewEvents :
          e.kind = "ack" =>
              \E p \in QueueOf(_pendingCommands) :
                  p.seq = e.seq /\ e.to = p.RemoteEndPoint

(* C10: an accepted command is acknowledged at most once, and only to the
   endpoint its datagram came from; a datagram that was rejected as
   malformed, unauthorized, stale or duplicate is never acknowledged. *)
C10_AckOnceToOrigin == []C10_State /\ [][C10_Step]_vars

(* one envelope was acknowledged to its sender and a duplicate was dropped *)
C10_Witness ==
    /\ \E e \in EventsOf(events) : e.kind = "ack" /\ e.to = HostEndpoint
    /\ \E n \in DOMAIN verdicts : verdicts[n] = "duplicate" /\ ~Acked(n)

----------------------------------------------------------------------------
(* Specification SpecDispatch: a listening UdpCommandListener without shared
   secret receives envelopes whose actions differ in case from the bound
   action, and Update dispatches them *)

DispatchDatagrams ==
    {[kind |-> "json",
      json |-> IF c = Null THEN [action |-> a, timestamp |-> StartMillis]
               ELSE [action |-> a, timestamp |-> StartMillis, cmdId |-> c],
      remote |-> HostEndpoint] :
        a \in {"Beep", "beep", "Nope"}, c \in {Null, "c1"}}

(* the state after OnEnable started the listener *)
InitDispatch ==
    /\ sharedSecret = ""
    /\ staleCommandWindowSeconds = DefaultStaleWindow
    /\ sendAcknowledgement \in BOOLEAN
    /\ enabled = TRUE
    /\ mainPc = "idle"
    /\ _isListening = TRUE
    /\ _receiveClient = "open"
    /\ _ackClient = "open"
    /\ listenerPc = "receive"
    /\ buffer = NoDatagram
    /\ orphans = {}
    /\ _pendingCommands = <<>>
    /\ _processedCommands = EmptyCache
    /\ now = StartMillis
    /\ received = 0
    /\ verdicts = <<>>
    /\ events = <<>>
    /\ sIn = Null
    /\ sOut = Null
    /\ burst = 0
    /\ hostMain = HostOff
    /\ udpReporter = ReporterOff
    /\ renderer = RendererOff

DispatchReceive == ReceiveFrom(DispatchDatagrams)

NextDispatch ==
    \/ DispatchReceive
    \/ Process
    \/ Update

SpecDispatch == InitDispatch /\ [][NextDispatch]_vars

----------------------------------------------------------------------------
(* Claims about dispatch *)

(* the action of the envelope with sequence number n, as CommandReceived saw it *)
ActionsSeen(es, n) == {e.what : e \in {g \in EventsOf(es) : g.kind = "generic" /\ g.seq = n}}

HandlerRuns(es, n) == {i \in DOMAIN es : es[i].kind = "handler" /\ es[i].seq = n}

(* ordinal comparison ignoring case, on the actions of the model *)
EqualIgnoringCase(a, b) == a = b \/ {a, b} = {"Beep", "beep"}

(* C11 as stated: a handler runs only for an envelope whose action is
   exactly the bound action, and runs once for every admitted envelope
   with a bound action. *)
C11_ExactMatchOnce ==
    \A e \in EventsOf(events) :
        e.kind = "handler" => ActionsSeen(events, e.seq) = {e.what}

C11_State ==
    /\ \A n \in DOMAIN verdicts : Cardinality(HandlerRuns(events, n)) <= 1
    /\ \A e \in EventsOf(events) :
          /\ verdicts[e.seq] = "admitted"
          /\ \A p \in QueueOf(_pendingCommands) : p.seq # e.seq
          /\ e.kind = "handler" =>
                /\ e.what \in Bindings
                /\ \A a \in ActionsSeen(events, e.seq) : EqualIgnoringCase(a, e.what)

C11_Step ==
    events' # events =>
        \A p \in QueueOf(_pendingCommands) :
            LET runs == {e \in NewEvents : e.kind = "handler" /\ e.seq = p.seq}
                bound == {b \in Bindings : EqualIgnoringCase(b, p.Message.action)}
            IN /\ bound # {} => (\E e \in runs : e.what \in bound)
               /\ bound = {} => runs = {}

(* C11 amended: the handler is looked up by the envelope's action ignoring
   case (a handler bound to "Beep" runs for "beep" too); it runs exactly
   once for every envelope that Update dispatches, never for an envelope
   that was not admitted, and no envelope is dispatched twice. *)
C11_IgnoreCaseOnce == []C11_State /\ [][C11_Step]_vars

(* the handler bound to "Beep" ran for an envelope with action "beep" *)
C11_Witness ==
    \E e \in EventsOf(events) :
        e.kind = "handler" /\ e.what = "Beep" /\ ActionsSeen(events, e.seq) = {"beep"}

GenericRuns(es, n) == {i \in DOMAIN es : es[i].kind = "generic" /\ es[i].seq = n}

(* C12 as stated, in its safety form: an admitted command that has not been
   announced to the generic observers is still waiting in the queue. *)
C12_AdmittedIsAnnounced ==
    \A n \in DOMAIN verdicts :
        verdicts[n] = "admitted" =>
            \/ GenericRuns(events, n) # {}
            \/ \E p \in QueueOf(_pendingCommands) : p.seq = n

C12_State ==
    \A n \in DOMAIN verdicts :
        /\ Cardinality(GenericRuns(events, n)) <= 1
        /\ GenericRuns(events, n) # {} => verdicts[n] = "admitted"
        /\ \A h \in HandlerRuns(events, n) : \E g \in GenericRuns(events, n) : g < h

C12_Step ==
    events' # events =>
        \A p \in QueueOf(_pendingCommands) :
            /\ Cardinality(GenericRuns(events', p.seq)) = 1
            /\ GenericRuns(events, p.seq) = {}

(* C12 amended: every command that Update dispatches triggers the generic
   notification exactly once, with or without a binding for its action, and
   before the specific handler of the same command runs; an admitted command
   still queued when the component is disabled is discarded unannounced. *)
C12_DispatchedIsAnnounced == []C12_State /\ [][C12_Step]_vars

(* one command was announced and handled, another announced without handler *)
C12_Witness ==
    \E m, n \in DOMAIN verdicts :
        /\ GenericRuns(events, m) # {} /\ HandlerRuns(events, m) # {}
        /\ GenericRuns(events, n) # {} /\ HandlerRuns(events, n) = {}

(* the sequence numbers of es in order, a run of equal numbers taken once *)
RECURSIVE SeqOrder(_)
SeqOrder(es) ==
    IF es = <<>> THEN <<>>
    ELSE IF Len(es) > 1 /\ es[1].seq = es[2].seq THEN SeqOrder(Tail(es))
    ELSE <<es[1].seq>> \o SeqOrder(Tail(es))

C13_State ==
    \A i, j, k \in DOMAIN events :
        (i < j /\ j < k /\ events[i].seq = events[k].seq) =>
            events[j].seq = events[i].seq

C13_Step ==
    /\ (events' = events /\ _pendingCommands' # _pendingCommands
            /\ _pendingCommands' # <<>>) =>
          /\ Len(_pendingCommands') = Len(_pendingCommands) + 1
          /\ SubSeq(_pendingCommands', 1, Len(_pendingCommands)) = _pendingCommands
    /\ events' # events =>
          /\ SubSeq(events', 1, Len(events)) = events
          /\ SeqOrder(SubSeq(events', Len(events) + 1, Len(events')))
                = [i \in DOMAIN _pendingCommands |-> _pendingCommands[i].seq]
          /\ _pendingCommands' = <<>>

(* C13: admitted commands are dispatched one at a time in the order they
   were enqueued: the receive thread appends at the tail, Update dispatches
   from the head, and the notifications of one command are never
   interleaved with those of another. *)
C13_FifoOneAtATime == []C13_State /\ [][C13_Step]_vars

(* the command received second was enqueued and dispatched first *)
C13_Witness ==
    \E i, j \in DOMAIN events :
        i < j /\ events[i].seq = 2 /\ events[j].seq = 1

(* the text is not parseable, or its action is missing or empty *)
Malformed(d) ==
    \/ d.kind # "json"
    \/ "action" \notin DOMAIN d.json
    \/ d.json["action"] = ""

C14_Step ==
    \A d \in Judged :
        Malformed(d) =>
            /\ verdicts'[d.seq] = "malformed"
            /\ _pendingCommands' = _pendingCommands
            /\ _processedCommands' = _processedCommands
            /\ events' = events
            /\ _isListening' = _isListening
            /\ d = buffer => listenerPc' = "receive"

(* C14: a datagram that is not parseable or has no action is dropped without
   effect (nothing enqueued, processed-id cache unchanged) and the receive
   loop goes back to Receive. *)
C14_MalformedDropped == [][C14_Step]_vars

(* after a malformed datagram a later envelope was admitted *)
C14_Witness ==
    /\ Len(verdicts) = 2
    /\ verdicts[1] = "malformed"
    /\ verdicts[2] = "admitted"

----------------------------------------------------------------------------
(* Host tool main process: ensureSocket, closeSocket, createSocket and their
   callers.  JavaScript runs one callback at a time; a callback ends at an
   await whose promise is settled by a later event.  socket.close() releases
   the port at once and its 'close' event and the continuation of
   await closeSocket run before any other event, so closing and creating are
   one step; the 'listening' or 'error' event of bind comes later, after
   other callbacks may have run. *)

MaxHostCalls == 3

(* ports a caller may ask for; 0 asks the system for an ephemeral port *)
HostPorts == {0, 4949, 5000}

(* the ephemeral port the system gives to the n-th socket *)
EphemeralPort(n) == 6000 + n

LiveSockets(h) == {i \in DOMAIN h.sockets : h.sockets[i].state \in {"binding", "bound"}}

(* closeSocket(udpSocket): close, then the 'close' handler clears udpSocket *)
closeSocket(h) ==
    [h EXCEPT !.sockets[h.udpSocket].state = "closed", !.udpSocket = 0]

(* createSocket(port): dgram.createSocket, socket.bind(port) *)
createSocket(h, port) ==
    [h EXCEPT !.sockets = Append(h.sockets, [state |-> "binding", port |-> port])]

(* ensureSocket(port) up to its return or to the await of createSocket *)
ensureSocket(h, port) ==
    IF h.udpSocket # 0
    THEN IF h.sockets[h.udpSocket].port = port
         THEN h
         ELSE createSocket(closeSocket(h), port)
    ELSE createSocket(h, port)

(* notes which caller a new socket was created for *)
CreatedFor(h, caller) ==
    IF Len(h.sockets) > Len(h.callers)
    THEN [h EXCEPT !.callers = Append(h.callers, caller)]
    ELSE h

HostCallEnsure(port, caller) ==
    /\ hostMain.calls < MaxHostCalls
    /\ hostMain' = [CreatedFor(ensureSocket(hostMain, port), caller)
                       EXCEPT !.calls = hostMain.calls + 1]
    /\ UNCHANGED <<config, listenerState, pure, udpReporter, renderer>>

(* app.whenReady().then: ensureSocket(listenPort) *)
HostWhenReady ==
    /\ hostMain.calls = 0
    /\ HostCallEnsure(hostMain.listenPort, "whenReady")

(* ipcMain.handle('udp:send'): await ensureSocket(listenPort) *)
HostSend ==
    /\ hostMain.calls > 0
    /\ HostCallEnsure(hostMain.listenPort, "udp:send")

(* ipcMain.handle('udp:set-listen-port'): await ensureSocket(parsed) *)
HostSetListenPort ==
    /\ hostMain.calls > 0
    /\ \E parsed \in HostPorts : HostCallEnsure(parsed, "udp:set-listen-port")

(* the port is held by another bound socket of this process *)
PortTaken(h, port) ==
    port # 0 /\ \E i \in DOMAIN h.sockets :
                    h.sockets[i].state = "bound" /\ h.sockets[i].port = port

(* 'listening': configureSocket sets udpSocket and listenPort *)
handleListening(h, i) ==
    LET actual == IF h.sockets[i].port = 0 THEN EphemeralPort(i) ELSE h.sockets[i].port
    IN [h EXCEPT !.sockets[i] = [state |-> "bound", port |-> actual],
                 !.udpSocket = i,
                 !.listenPort = actual]

(* 'error' before 'listening': socket.close(), reject *)
initialError(h, i) == [h EXCEPT !.sockets[i].state = "closed"]

(* the bind of a socket completes; it fails when the port is in use, here
   or in another process *)
HostBindDone ==
    /\ \E i \in DOMAIN hostMain.sockets, free \in BOOLEAN :
          /\ hostMain.sockets[i].state = "binding"
          /\ hostMain' = IF free /\ ~PortTaken(hostMain, hostMain.sockets[i].port)
                         THEN handleListening(hostMain, i)
                         ELSE initialError(hostMain, i)
    /\ UNCHANGED <<config, listenerState, pure, udpReporter, renderer>>

(* Discovery responder of the host tool: socket.on('message') and
   handleHostDiscovery *)

MaxHostMessages == 2

(* the address resolveLocalIPv4 picks for the host *)
HostLocalAddress == "10.0.0.1"

(* datagrams that reach a bound socket: JSON objects with an action (not a
   string when Undefined), an optional cmdId and an optional commandPort in
   the payload; and garbage, text that is not JSON or is a falsy JSON value *)
HostDatagram(kind, action, cmdId, commandPort, port) ==
    [kind |-> kind, action |-> action, cmdId |-> cmdId,
     commandPort |-> commandPort, address |-> "10.0.0.9", port |-> port]

HostInbound ==
    {HostDatagram("json", "DiscoverHost", "p1", "3939", 7001),
     HostDatagram("json", "discoverhost", Undefined, Undefined, 7001),
     HostDatagram("json", "DISCOVERHOST", "p1", "3939", 3939),
     HostDatagram("json", "DiscoverHost", "", Undefined, 7001),
     HostDatagram("json", "Heartbeat", "p1", "3939", 3939),
     HostDatagram("json", Undefined, "p1", Undefined, 7001),
     HostDatagram("garbage", Undefined, Undefined, Undefined, 7001)}

(* safeParseJson(payload) returned a truthy value *)
HostParsed(d) == d.kind = "json"

ToLowerCaseIdentity(s) == s

(* String.prototype.toLowerCase on the actions in use *)
ToLowerCase(s) ==
    CASE s \in {"DiscoverHost", "DISCOVERHOST"} -> "discoverhost"
      [] s = "Heartbeat" -> "heartbeat"
      [] s = "HostAnnouncement" -> "hostannouncement"
      [] OTHER -> s

(* Number.isInteger(n = Number.parseInt(requestPayload?.commandPort, 10)) ? n : 0 *)
RequestedCommandPort(text) == IF text = "3939" THEN 3939 ELSE 0

(* handleHostDiscovery(socket, message, remote): the responses it sends *)
handleHostDiscovery(h, i, d) ==
    LET action == IF d.action # Undefined THEN ToLowerCase(d.action) ELSE ""
    IN IF action # "discoverhost" THEN <<>>
       ELSE << [action |-> "HostAnnouncement",
                hostAddress |-> HostLocalAddress,
                hostPort |-> h.sockets[i].port,
                commandPort |-> RequestedCommandPort(d.commandPort),
                cmdId |-> IF d.cmdId # Undefined /\ d.cmdId # "" THEN d.cmdId
                          ELSE Undefined,
                address |-> d.address,
                port |-> d.port,
                answers |-> h.received + 1] >>

(* socket.on('message'): forward to the window, then handleHostDiscovery
   when the text parses *)
HostOnMessage ==
    /\ hostMain.received < MaxHostMessages
    /\ \E i \in DOMAIN hostMain.sockets, d \in HostInbound :
          /\ hostMain.sockets[i].state = "bound"
          /\ LET sending == IF HostParsed(d) THEN handleHostDiscovery(hostMain, i, d)
                            ELSE <<>>
             IN hostMain' = [hostMain EXCEPT
                   !.received = hostMain.received + 1,
                   !.last = d @@ [socket |-> i],
                   !.responses = sending,
                   !.answered = hostMain.answered + Len(sending)]
    /\ UNCHANGED <<config, listenerState, pure, udpReporter, renderer>>

InitHost ==
    /\ sharedSecret = ""
    /\ staleCommandWindowSeconds = DefaultStaleWindow
    /\ sendAcknowledgement = TRUE
    /\ enabled = FALSE
    /\ mainPc = "idle"
    /\ _isListening = FALSE
    /\ _receiveClient = Null
    /\ _ackClient = Null
    /\ listenerPc = "none"
    /\ buffer = NoDatagram
    /\ orphans = {}
    /\ _pendingCommands = <<>>
    /\ _processedCommands = EmptyCache
    /\ now = StartMillis
    /\ received = 0
    /\ verdicts = <<>>
    /\ events = <<>>
    /\ sIn = Null
    /\ sOut = Null
    /\ burst = 0
    /\ hostMain = HostOff
    /\ udpReporter = ReporterOff
    /\ renderer = RendererOff

NextHost ==
    \/ HostWhenReady
    \/ HostSend
    \/ HostSetListenPort
    \/ HostBindDone
    \/ HostOnMessage

SpecHost == InitHost /\ [][NextHost]_vars

(* C15: two sockets of the host tool never coexist: at most one socket is
   bound or being bound at any time, so the previous socket is closed
   before a new one is created. *)
C15_OneSocket == Cardinality(LiveSockets(hostMain)) <= 1

----------------------------------------------------------------------------
(* Start-up of the listener with the outcome of each bind recorded: sOut
   holds the result of the latest StartListening that reached the bind. *)

NotStarted == [stage |-> "none"]

StartResult(bindOk) ==
    IF _isListening THEN sOut ELSE [stage |-> "started", bindOk |-> bindOk]

InitBind ==
    /\ sharedSecret = ""
    /\ staleCommandWindowSeconds = DefaultStaleWindow
    /\ sendAcknowledgement = TRUE
    /\ enabled = FALSE
    /\ mainPc = "idle"
    /\ _isListening = FALSE
    /\ _receiveClient = Null
    /\ _ackClient = Null
    /\ listenerPc = "none"
    /\ buffer = NoDatagram
    /\ orphans = {}
    /\ _pendingCommands = <<>>
    /\ _processedCommands = EmptyCache
    /\ now = StartMillis
    /\ received = 0
    /\ verdicts = <<>>
    /\ events = <<>>
    /\ sIn = Null
    /\ sOut = NotStarted
    /\ burst = 0
    /\ hostMain = HostOff
    /\ udpReporter = ReporterOff
    /\ renderer = RendererOff

(* OnEnable: BuildBindingLookup(); StartListening() *)
BindOnEnable ==
    /\ mainPc = "idle"
    /\ ~enabled
    /\ enabled' = TRUE
    /\ \E bindOk \in BOOLEAN :
          /\ StartListeningEffect(bindOk)
          /\ sOut' = StartResult(bindOk)
    /\ UNCHANGED <<config, mainPc, buffer, orphans, _pendingCommands,
                   _processedCommands, now, received, verdicts, events, sIn,
                   burst, peers>>

(* StartListening() called by the owner *)
BindStartListening ==
    /\ mainPc = "idle"
    /\ ~_isListening
    /\ \E bindOk \in BOOLEAN :
          /\ StartListeningEffect(bindOk)
          /\ sOut' = StartResult(bindOk)
    /\ UNCHANGED <<config, enabled, mainPc, buffer, orphans, _pendingCommands,
                   _processedCommands, now, received, verdicts, events, sIn,
                   burst, peers>>

NextBind ==
    \/ BindOnEnable
    \/ BindStartListening
    \/ StopListening
    \/ OnDisableStop
    \/ OnDisableDrain
    \/ Update
    \/ DispatchReceive
    \/ Process
    \/ ProcessOrphan

SpecBind == InitBind /\ [][NextBind]_vars

BindFailed == sOut.stage = "started" /\ ~sOut.bindOk

ListenerDown ==
    /\ ~_isListening
    /\ _receiveClient = Null
    /\ _ackClient = Null
    /\ listenerPc = "none"

C16_State == BindFailed => ListenerDown

(* while the latest start has failed, no datagram is received and the
   listener's sockets and thread change only in a start by the owner *)
C16_Step ==
    BindFailed =>
        /\ received' = received
        /\ <<_isListening, _receiveClient, _ackClient, listenerPc>>'
               # <<_isListening, _receiveClient, _ackClient, listenerPc>>
             => sOut' # sOut

(* C16: a bind failure is fatal to the start-up and is not retried: after a
   StartListening whose bind failed the listener is not listening and holds
   no socket and no receive thread, and it stays so until the owner starts
   it again. *)
C16_BindFailureIsFatal == []C16_State /\ [][C16_Step]_vars

(* a start whose bind failed, after an earlier session that received a
   datagram *)
C16_Witness == BindFailed /\ received > 0 /\ enabled

----------------------------------------------------------------------------
(* UdpClientReporter: host discovery.  InitializeRoutine, DiscoverHostAsync
   and HandleCommandReceived all run on the main thread; a step below is the
   code between two awaits or yields. *)

maxDiscoveryAttempts == 3

MaxCycles == 2

(* datagrams that reach the reporter: probe replies and announcements *)
MaxInbound == 2

(* the observed sender of a reply; HandleCommandReceived passes no sender *)
HostRemote == "10.0.0.9"

(* the ephemeral port the system gives to the n-th discovery socket *)
ClientPort(n) == 7000 + n

IsNullOrWhiteSpace(s) == s = Null \/ s = "" \/ s = " "

(* string.Equals(s, "auto", StringComparison.OrdinalIgnoreCase) *)
EqualsAutoIgnoreCase(s) == s \in {"auto", "Auto", "AUTO"}

IsHostResolved(r) ==
    ~IsNullOrWhiteSpace(r.hostAddress) /\ ~EqualsAutoIgnoreCase(r.hostAddress)

(* discoveryAction and hostAnnouncementAction keep their non-blank defaults *)
ShouldAttemptDiscovery(r) ==
    ~IsHostResolved(r) /\ r.discoveryPort > 0 /\ maxDiscoveryAttempts > 0

ResolvedAddress(payload, remote) ==
    IF ~IsNullOrWhiteSpace(payload.hostAddress) THEN payload.hostAddress ELSE remote

ResolvedPort(r, payload) ==
    IF payload.hostPort > 0 THEN payload.hostPort ELSE r.hostPort

(* string.Equals(a, b, StringComparison.OrdinalIgnoreCase) on the addresses
   in use *)
FoldAddress(s) == IF EqualsAutoIgnoreCase(s) THEN "auto" ELSE s

EqualsIgnoreCase(a, b) == FoldAddress(a) = FoldAddress(b)

ResetCachedEndpoint(r) ==
    [r EXCEPT !.cachedEndpoint = NoEndpoint, !.cachedHostAddress = Null]

HostChangedAddressOnly(r, resolvedAddress, resolvedPort) ==
    ~EqualsIgnoreCase(r.hostAddress, resolvedAddress)

(* addressChanged || portChanged *)
HostChanged(r, resolvedAddress, resolvedPort) ==
    ~EqualsIgnoreCase(r.hostAddress, resolvedAddress) \/ resolvedPort # r.hostPort

FieldsOf(r) ==
    HostFields(r.hostAddress, r.hostPort, r.cachedEndpoint, r.hasSentRegistration)

ApplyHostAnnouncement(r, payload, remote) ==
    LET resolvedAddress == ResolvedAddress(payload, remote)
        resolvedPort == ResolvedPort(r, payload)
        assigned == [r EXCEPT !.hostAddress = resolvedAddress,
                              !.hostPort = resolvedPort,
                              !.discoveryPort = resolvedPort]
        result == IF HostChanged(r, resolvedAddress, resolvedPort)
                  THEN [ResetCachedEndpoint(assigned) EXCEPT !.hasSentRegistration = FALSE]
                  ELSE assigned
        outcome(ok, after) == [called |-> TRUE, ok |-> ok, payload |-> payload,
                               remote |-> remote, before |-> FieldsOf(r),
                               after |-> FieldsOf(after)]
    IN IF IsNullOrWhiteSpace(resolvedAddress)
       THEN [r EXCEPT !.applied = outcome(FALSE, r)]
       ELSE [result EXCEPT !.applied = outcome(TRUE, result)]

(* Dns.GetHostAddresses: the first IPv4 address of the name; an IPv4 literal
   is its own address, any other name here has none *)
GetHostAddresses(name) ==
    IF name \in {"10.0.0.7", "10.0.0.9"} THEN name ELSE Null

(* TryResolveEndpoint: the reporter afterwards and the endpoint, NoEndpoint
   when it returns false *)
TryResolveEndpoint(r) ==
    IF ~IsHostResolved(r)
    THEN [reporter |-> r, endpoint |-> NoEndpoint]
    ELSE IF /\ r.cachedEndpoint # NoEndpoint
            /\ EqualsIgnoreCase(r.hostAddress, r.cachedHostAddress)
            /\ r.cachedEndpoint.port = r.hostPort
    THEN [reporter |-> r, endpoint |-> r.cachedEndpoint]
    ELSE IF GetHostAddresses(r.hostAddress) # Null
    THEN LET endpoint == [address |-> GetHostAddresses(r.hostAddress), port |-> r.hostPort]
         IN [reporter |-> [r EXCEPT !.cachedEndpoint = endpoint,
                                    !.cachedHostAddress = r.hostAddress],
             endpoint |-> endpoint]
    ELSE [reporter |-> r, endpoint |-> NoEndpoint]

(* SendCommand: EnsureHostReady, TryResolveEndpoint, udpClient.Send; the
   reporter afterwards and the return value *)
SendCommand(r, action) ==
    LET resolved == TryResolveEndpoint(r)
    IN IF ~IsHostResolved(r) \/ resolved.endpoint = NoEndpoint
       THEN [reporter |-> resolved.reporter, ok |-> FALSE]
       ELSE [reporter |-> [resolved.reporter EXCEPT
                              !.sent = Append(r.sent,
                                  [action |-> action,
                                   address |-> resolved.endpoint.address,
                                   port |-> resolved.endpoint.port])],
             ok |-> TRUE]

RegisterClient(r) ==
    IF ~IsHostResolved(r) THEN r
    ELSE LET sending == SendCommand(r, "RegisterClient")
         IN IF sending.ok
            THEN [sending.reporter EXCEPT !.hasSentRegistration = TRUE]
            ELSE sending.reporter

SendHeartbeat(r) ==
    IF ~IsHostResolved(r) THEN r ELSE SendCommand(r, "Heartbeat").reporter

(* heartbeatIntervalSeconds keeps its positive default *)
StartHeartbeatUnguarded(r) ==
    IF ~IsHostResolved(r) THEN r
    ELSE [r EXCEPT !.heartbeatRoutine = TRUE, !.loops = r.loops + 1]

StartHeartbeat(r) ==
    IF r.heartbeatRoutine \/ ~IsHostResolved(r) THEN r
    ELSE [r EXCEPT !.heartbeatRoutine = TRUE, !.loops = r.loops + 1]

(* a MaybeStartReporting that only starts the heartbeat *)
MaybeStartReportingHeartbeatOnly(r, forceRegister) ==
    IF ~IsHostResolved(r) THEN r ELSE StartHeartbeat(r)

(* a MaybeStartReporting that does not look at hasSentRegistration *)
MaybeStartReportingRegisterAgain(r, forceRegister) ==
    IF ~IsHostResolved(r) THEN r
    ELSE StartHeartbeat(IF forceRegister \/ r.registerOnEnable
                        THEN RegisterClient(r)
                        ELSE r)

MaybeStartReporting(r, forceRegister) ==
    IF ~IsHostResolved(r) THEN r
    ELSE StartHeartbeat(IF ~r.hasSentRegistration /\ (forceRegister \/ r.registerOnEnable)
                        THEN RegisterClient(r)
                        ELSE r)

(* the end of InitializeRoutine: MaybeStartReporting(forceRegister: registerOnEnable) *)
RoutineEnd(r) == [MaybeStartReporting(r, r.registerOnEnable) EXCEPT !.pc = "done"]

(* new UdpClient(0); client.SendAsync(buffer, ..., broadcastEndpoint); the
   attempt then waits for ReceiveAsync or the delay *)
SendProbe(r) ==
    [r EXCEPT !.sockets = Append(r.sockets, "open"),
              !.client = Len(r.sockets) + 1,
              !.probes = r.probes + 1,
              !.probedResolved = r.probedResolved \/ IsHostResolved(r),
              !.pc = "wait"]

(* an attempt that leaves its socket open *)
ReleaseAttemptLeaveOpen(r) == [r EXCEPT !.client = 0]

(* client.Close() on timeout, and the end of the using scope *)
ReleaseAttempt(r) == [r EXCEPT !.sockets[r.client] = "closed", !.client = 0]

(* continue, or the end of the loop body: attempt++, then the next attempt
   or return false *)
NextAttempt(r) ==
    LET released == ReleaseAttempt(r)
    IN IF r.attempt + 1 < maxDiscoveryAttempts
       THEN SendProbe([released EXCEPT !.attempt = r.attempt + 1])
       ELSE [released EXCEPT !.pc = "completed", !.result = FALSE]

(* DiscoverHostAsync up to the first await of its first attempt *)
DiscoverHostAsync(r) ==
    SendProbe([r EXCEPT !.attempt = 0, !.probes = 0, !.cycles = r.cycles + 1])

(* while (ShouldAttemptDiscovery()) { DiscoverHostAsync() ... }; after the
   loop MaybeStartReporting *)
RoutineLoop(r) ==
    IF ShouldAttemptDiscovery(r) THEN DiscoverHostAsync(r) ELSE RoutineEnd(r)

InitializeRoutine(r) ==
    IF r.autoDiscoverHost THEN RoutineLoop(r) ELSE RoutineEnd(r)

reporterFrame == <<config, listenerState, pure, hostMain, renderer>>

(* OnEnable: subscribe to CommandReceived, StartCoroutine(InitializeRoutine()) *)
ReporterOnEnable ==
    /\ udpReporter.pc = "off"
    /\ udpReporter' = InitializeRoutine(udpReporter)
    /\ UNCHANGED reporterFrame

(* the delay completes first *)
AttemptTimeout ==
    /\ udpReporter.pc = "wait"
    /\ udpReporter' = NextAttempt(udpReporter)
    /\ UNCHANGED reporterFrame

AnnouncementPayloads ==
    {NoPayload,
     [hostAddress |-> "10.0.0.7", hostPort |-> 5050],
     [hostAddress |-> "10.0.0.7", hostPort |-> 0],
     [hostAddress |-> "", hostPort |-> 5050],
     [hostAddress |-> "auto", hostPort |-> 5050]}

ReplyMessages ==
    [action : {"HostAnnouncement"}, payload : AnnouncementPayloads]
        \cup {[action |-> "Pong", payload |-> NoPayload]}

(* the text of an announcement payload, as far as the model tells payloads
   apart *)
AnnouncementText(payload) ==
    InterpolateCs(payload.hostAddress) \o ":" \o LongToString(Big(0, payload.hostPort))

AnnouncementCanonical(message) ==
    message.action \o "|" \o AnnouncementText(message.payload)
        \o "|" \o LongToString(message.timestamp)

(* a reply check that also verifies the signature against sharedSecret *)
IsHostAnnouncementVerified(message) ==
    /\ message.action \in {"HostAnnouncement", "hostannouncement"}
    /\ \/ IsNullOrEmpty(udpReporter.sharedSecret)
       \/ message.signature = Hmac(udpReporter.sharedSecret, AnnouncementCanonical(message))

IsHostAnnouncement(message) ==
    message.action \in {"HostAnnouncement", "hostannouncement"}

(* a datagram arrives on the attempt's socket before the delay completes *)
AttemptReceive ==
    /\ udpReporter.pc = "wait"
    /\ \E reply \in udpReporter.replies :
          /\ reply.port = ClientPort(udpReporter.client)
          /\ LET taken == [udpReporter EXCEPT
                              !.replies = udpReporter.replies \ {reply},
                              !.consumed = [by |-> udpReporter.client,
                                            answers |-> reply.answers]]
                 applied == ApplyHostAnnouncement(taken, reply.message.payload, HostRemote)
             IN udpReporter' =
                   IF ~IsHostAnnouncement(reply.message)
                   THEN NextAttempt(taken)
                   ELSE IF applied.applied.ok
                   THEN [ReleaseAttempt(applied) EXCEPT !.pc = "completed", !.result = TRUE]
                   ELSE NextAttempt(applied)
    /\ UNCHANGED reporterFrame

(* InitializeRoutine resumes on the frame after the task completed *)
RoutineResume ==
    /\ udpReporter.pc = "completed"
    /\ udpReporter' =
          IF udpReporter.result THEN RoutineEnd(udpReporter)
          ELSE IF ~udpReporter.autoDiscoverHost \/ ~ShouldAttemptDiscovery(udpReporter)
          THEN RoutineEnd(udpReporter)
          ELSE [udpReporter EXCEPT !.pc = "retryWait"]
    /\ UNCHANGED reporterFrame

(* yield return retryWait ends; the loop condition is evaluated again *)
RetryElapsed ==
    /\ udpReporter.pc = "retryWait"
    /\ udpReporter.cycles < MaxCycles
    /\ udpReporter' = RoutineLoop(udpReporter)
    /\ UNCHANGED reporterFrame

(* HandleCommandReceived for a message whose action is the announcement
   action: if (ApplyHostAnnouncement(payload, null)) MaybeStartReporting() *)
HandleCommandReceived ==
    /\ udpReporter.pc # "off"
    /\ udpReporter.replied + udpReporter.announced < MaxInbound
    /\ \E payload \in AnnouncementPayloads :
          LET applied == ApplyHostAnnouncement(udpReporter, payload, Null)
              reporting == IF applied.applied.ok
                           THEN MaybeStartReporting(applied, FALSE)
                           ELSE applied
          IN udpReporter' = [reporting EXCEPT !.announced = udpReporter.announced + 1]
    /\ UNCHANGED reporterFrame

(* some station answers a probe, to the port the probe came from *)
HostReplyWith(messages) ==
    /\ udpReporter.replied + udpReporter.announced < MaxInbound
    /\ \E n \in DOMAIN udpReporter.sockets, message \in messages :
          udpReporter' = [udpReporter EXCEPT
                             !.replies = udpReporter.replies
                                 \cup {[port |-> ClientPort(n), answers |-> n,
                                        message |-> message]},
                             !.replied = udpReporter.replied + 1]
    /\ UNCHANGED reporterFrame

HostReply == HostReplyWith(ReplyMessages)

ReporterConfigs ==
    {[ReporterOff EXCEPT !.hostAddress = a, !.autoDiscoverHost = d] :
        a \in {"auto", "", "10.0.0.7"}, d \in BOOLEAN}

InitDiscovery ==
    /\ sharedSecret = ""
    /\ staleCommandWindowSeconds = DefaultStaleWindow
    /\ sendAcknowledgement = TRUE
    /\ enabled = FALSE
    /\ mainPc = "idle"
    /\ _isListening = FALSE
    /\ _receiveClient = Null
    /\ _ackClient = Null
    /\ listenerPc = "none"
    /\ buffer = NoDatagram
    /\ orphans = {}
    /\ _pendingCommands = <<>>
    /\ _processedCommands = EmptyCache
    /\ now = StartMillis
    /\ received = 0
    /\ verdicts = <<>>
    /\ events = <<>>
    /\ sIn = Null
    /\ sOut = Null
    /\ burst = 0
    /\ hostMain = HostOff
    /\ udpReporter \in ReporterConfigs
    /\ renderer = RendererOff

NextDiscovery ==
    \/ ReporterOnEnable
    \/ AttemptTimeout
    \/ AttemptReceive
    \/ RoutineResume
    \/ RetryElapsed
    \/ HandleCommandReceived
    \/ HostReply

SpecDiscovery == InitDiscovery /\ [][NextDiscovery]_vars

----------------------------------------------------------------------------
(* Claims about discovery *)

RoutineEnded == udpReporter.pc = "done"

DiscoveryEnabled == udpReporter.autoDiscoverHost /\ udpReporter.discoveryPort > 0

(* C17: while discovery is enabled and the host is unresolved the
   coordinator never gives up: InitializeRoutine does not end with the host
   unresolved, it goes on to another cycle after the retry interval. *)
C17_NeverGivesUp ==
    (RoutineEnded /\ DiscoveryEnabled) => IsHostResolved(udpReporter)

(* the routine ends with an unresolved host only when the address it holds
   is the word "auto" *)
C17_GivenUpOnlyOnAuto ==
    (RoutineEnded /\ DiscoveryEnabled /\ ~IsHostResolved(udpReporter))
        => EqualsAutoIgnoreCase(udpReporter.hostAddress)

(* C18: a DiscoveryProbe is broadcast only while the host is unresolved;
   once the host is resolved by a reply or by an unsolicited announcement no
   further probe is sent, the remaining attempts of the cycle included. *)
C18_NoProbeWhenResolved == ~udpReporter.probedResolved

OpenSockets(r) == {i \in DOMAIN r.sockets : r.sockets[i] = "open"}

C19_State ==
    /\ udpReporter.probes <= maxDiscoveryAttempts
    /\ Cardinality(OpenSockets(udpReporter)) <= 1
    /\ udpReporter.pc = "wait" =>
          /\ udpReporter.client = Len(udpReporter.sockets)
          /\ OpenSockets(udpReporter) = {udpReporter.client}
    /\ udpReporter.consumed.by = udpReporter.consumed.answers

(* a probe is sent on a socket created for it, and when that socket is
   created every earlier socket is closed *)
C19_Step ==
    /\ udpReporter'.probes # udpReporter.probes /\ udpReporter'.probes > 0
          => Len(udpReporter'.sockets) = Len(udpReporter.sockets) + 1
    /\ Len(udpReporter'.sockets) > Len(udpReporter.sockets)
          => \A i \in DOMAIN udpReporter.sockets : udpReporter'.sockets[i] = "closed"

(* C19: in one cycle at most maxDiscoveryAttempts probes are sent, each
   attempt has its own fresh socket, the socket of an attempt is closed
   before the socket of the next attempt is created, and a reply to one
   attempt is never consumed by another. *)
C19_FreshSocketPerAttempt == []C19_State /\ [][C19_Step]_vars

(* the last attempt of a cycle waits while a reply to an earlier attempt of
   the cycle is still in flight *)
C19_Witness ==
    /\ udpReporter.pc = "wait"
    /\ udpReporter.probes = maxDiscoveryAttempts
    /\ \E reply \in udpReporter.replies : reply.answers < udpReporter.client

Applied == udpReporter.applied

AppliedOk == Applied.called /\ Applied.ok

PayloadAddressGiven == ~IsNullOrWhiteSpace(Applied.payload.hostAddress)

ClaimedAddress ==
    IF PayloadAddressGiven THEN Applied.payload.hostAddress ELSE Applied.remote

ClaimedPort ==
    IF Applied.payload.hostPort > 0 THEN Applied.payload.hostPort ELSE Applied.before.hostPort

(* C20: after a successful application of a HostAnnouncement the host
   address is the payload's hostAddress, or the sender's address when the
   payload omits it, the port is the payload's hostPort, or the configured
   port when that is omitted or not positive, and the coordinator is
   Resolved with that address and port. *)
C20_AppliedIsResolved ==
    AppliedOk =>
        /\ udpReporter.hostAddress = ClaimedAddress
        /\ udpReporter.hostPort = ClaimedPort
        /\ IsHostResolved(udpReporter)

(* the address and the port are the claimed ones in every application *)
C20_AppliedAddressAndPort ==
    AppliedOk =>
        /\ udpReporter.hostAddress = ClaimedAddress
        /\ udpReporter.hostPort = ClaimedPort

----------------------------------------------------------------------------
(* UdpClientReporter: discovery together with registration and heartbeats *)

MaxReports == 1

(* HeartbeatLoop wakes up: SendHeartbeat() *)
HeartbeatLoop ==
    /\ udpReporter.pc # "off"
    /\ udpReporter.heartbeatRoutine
    /\ udpReporter.reports < MaxReports
    /\ udpReporter' = [SendHeartbeat(udpReporter) EXCEPT !.reports = udpReporter.reports + 1]
    /\ UNCHANGED reporterFrame

(* HandleSceneChanged: SendHeartbeat() *)
HandleSceneChanged ==
    /\ udpReporter.pc # "off"
    /\ udpReporter.reports < MaxReports
    /\ udpReporter' = [SendHeartbeat(udpReporter) EXCEPT !.reports = udpReporter.reports + 1]
    /\ UNCHANGED reporterFrame

(* RegisterClient() called by the owner ("Send Registration") *)
ReporterRegisterClient ==
    /\ udpReporter.pc # "off"
    /\ udpReporter.reports < MaxReports
    /\ udpReporter' = [RegisterClient(udpReporter) EXCEPT !.reports = udpReporter.reports + 1]
    /\ UNCHANGED reporterFrame

ReportConfigs ==
    {[config0 EXCEPT !.registerOnEnable = f] : config0 \in ReporterConfigs, f \in BOOLEAN}

InitReport ==
    /\ sharedSecret = ""
    /\ staleCommandWindowSeconds = DefaultStaleWindow
    /\ sendAcknowledgement = TRUE
    /\ enabled = FALSE
    /\ mainPc = "idle"
    /\ _isListening = FALSE
    /\ _receiveClient = Null
    /\ _ackClient = Null
    /\ listenerPc = "none"
    /\ buffer = NoDatagram
    /\ orphans = {}
    /\ _pendingCommands = <<>>
    /\ _processedCommands = EmptyCache
    /\ now = StartMillis
    /\ received = 0
    /\ verdicts = <<>>
    /\ events = <<>>
    /\ sIn = Null
    /\ sOut = Null
    /\ burst = 0
    /\ hostMain = HostOff
    /\ udpReporter \in ReportConfigs
    /\ renderer = RendererOff

(* reporting is followed through the first discovery cycle; the later
   cycles run the same code and are followed in SpecDiscovery *)
NextReport ==
    \/ ReporterOnEnable
    \/ AttemptTimeout
    \/ AttemptReceive
    \/ RoutineResume
    \/ HandleCommandReceived
    \/ HostReply
    \/ HeartbeatLoop
    \/ HandleSceneChanged
    \/ ReporterRegisterClient

SpecReport == InitReport /\ [][NextReport]_vars

(* the announcement of a HandleCommandReceived step, had it come as the
   reply to a probe from the same sender *)
AsProbeReply == ApplyHostAnnouncement(udpReporter, Applied'.payload, HostRemote).applied

C21_Step ==
    udpReporter'.announced # udpReporter.announced =>
        /\ Applied'.ok = AsProbeReply.ok
        /\ Applied'.after = AsProbeReply.after

(* C21: an unsolicited HostAnnouncement that comes through the command
   listener is applied as the same announcement would be as a probe reply:
   same success, same address and port (sender-address and previous-port
   fallbacks included), same cache invalidation and same reset of the
   registration flag. *)
C21_AppliedIdentically == [][C21_Step]_vars

(* with an address in the payload the two ways agree *)
C21_StepWithAddress ==
    (udpReporter'.announced # udpReporter.announced
        /\ ~IsNullOrWhiteSpace(Applied'.payload.hostAddress)) =>
        /\ Applied'.ok = AsProbeReply.ok
        /\ Applied'.after = AsProbeReply.after

C21_IdenticalWithAddress == [][C21_StepWithAddress]_vars

----------------------------------------------------------------------------
(* Claims about registration and heartbeats *)

SentTo(envelope, r) ==
    /\ envelope.address = GetHostAddresses(r.hostAddress)
    /\ envelope.port = r.hostPort

RegisteredAtCurrentHost ==
    \E i \in DOMAIN udpReporter.sent :
        /\ udpReporter.sent[i].action = "RegisterClient"
        /\ SentTo(udpReporter.sent[i], udpReporter)

(* the host is resolved and InitializeRoutine is not waiting to resume after
   a completed DiscoverHostAsync *)
ResolvedAndSettled ==
    /\ IsHostResolved(udpReporter)
    /\ udpReporter.pc \notin {"off", "completed"}

(* C22 as stated: once the coordinator is Resolved a RegisterClient envelope
   is sent to the resolved endpoint. *)
C22_RegisteredWhenResolved == ResolvedAndSettled => RegisteredAtCurrentHost

C22_State ==
    (ResolvedAndSettled /\ udpReporter.registerOnEnable) => RegisteredAtCurrentHost

(* an envelope is sent only while the host is resolved, and to the address
   and port that are current when it is sent *)
C22_Step ==
    Len(udpReporter'.sent) > Len(udpReporter.sent) =>
        /\ Len(udpReporter'.sent) = Len(udpReporter.sent) + 1
        /\ IsHostResolved(udpReporter')
        /\ SentTo(udpReporter'.sent[Len(udpReporter'.sent)], udpReporter')

(* C22, amended: with registerOnEnable set, once the coordinator is Resolved
   a RegisterClient envelope is sent to the resolved endpoint, and every
   registration or heartbeat goes to the address and port resolved at that
   time, never to an earlier one. *)
C22_RegistersAtResolvedHost == []C22_State /\ [][C22_Step]_vars

(* the host was resolved by one announcement and then moved by another, and
   envelopes went to both endpoints *)
C22_Witness ==
    /\ ResolvedAndSettled
    /\ udpReporter.registerOnEnable
    /\ AppliedOk
    /\ Applied.before.hostAddress = "10.0.0.9"
    /\ udpReporter.hostAddress = "10.0.0.7"
    /\ \E i \in DOMAIN udpReporter.sent : udpReporter.sent[i].address = "10.0.0.9"
    /\ RegisteredAtCurrentHost


AppliedDiffers ==
    \/ Applied.after.hostAddress # Applied.before.hostAddress
    \/ Applied.after.hostPort # Applied.before.hostPort

(* C30: when an applied HostAnnouncement changes the address or the port,
   the cached endpoint is dropped and the registration-sent flag is reset;
   when both stay as they were, the cached endpoint and the flag are left
   as they were. *)
C30_InvalidatesOnChange ==
    AppliedOk =>
        IF AppliedDiffers
        THEN /\ Applied.after.cachedEndpoint = NoEndpoint
             /\ ~Applied.after.hasSentRegistration
        ELSE /\ Applied.after.cachedEndpoint = Applied.before.cachedEndpoint
             /\ Applied.after.hasSentRegistration = Applied.before.hasSentRegistration

(* an announcement that changed only the port of a host that had a cached
   endpoint and a sent registration *)
C30_Witness ==
    /\ AppliedOk
    /\ Applied.after.hostAddress = Applied.before.hostAddress
    /\ Applied.after.hostPort # Applied.before.hostPort
    /\ Applied.before.cachedEndpoint # NoEndpoint
    /\ Applied.before.hasSentRegistration

(* an announcement that changed nothing, with a cached endpoint and a sent
   registration in place *)
C30_WitnessUnchanged ==
    /\ AppliedOk
    /\ ~AppliedDiffers
    /\ Applied.before.cachedEndpoint # NoEndpoint
    /\ Applied.before.hasSentRegistration

----------------------------------------------------------------------------
(* Claims about the host tool's discovery responder *)

IsDiscoverHost(d) ==
    d.kind = "json" /\ d.action \in {"DiscoverHost", "discoverhost", "DISCOVERHOST"}

NewResponses == hostMain'.responses

(* a received DiscoverHost is answered once, to its sender, with the port of
   the socket it came in on and its cmdId; anything else is not answered *)
C23_Step ==
    /\ hostMain'.received = hostMain.received => hostMain'.answered = hostMain.answered
    /\ hostMain'.received # hostMain.received =>
          LET d == hostMain'.last
          IN /\ hostMain'.answered = hostMain.answered + Len(NewResponses)
             /\ IF IsDiscoverHost(d)
                THEN /\ Len(NewResponses) = 1
                     /\ NewResponses[1].action = "HostAnnouncement"
                     /\ NewResponses[1].address = d.address
                     /\ NewResponses[1].port = d.port
                     /\ NewResponses[1].hostPort = hostMain.sockets[d.socket].port
                     /\ hostMain.sockets[d.socket].state = "bound"
                     /\ NewResponses[1].cmdId = (IF d.cmdId = "" THEN Undefined ELSE d.cmdId)
                ELSE NewResponses = <<>>

(* C23: the host tool answers every received DiscoverHost envelope, the
   action compared ignoring case, with exactly one HostAnnouncement to the
   probe's source address and port that carries the listener's bound port
   as hostPort and echoes the probe's cmdId, and it answers nothing else. *)
C23_AnswersEveryProbe == [][C23_Step]_vars

(* a probe written in another case and carrying a cmdId was answered after a
   datagram that is no probe was received and not answered *)
C23_Witness ==
    /\ hostMain.received = 2
    /\ hostMain.answered = 1
    /\ IsDiscoverHost(hostMain.last)
    /\ hostMain.last.action = "DISCOVERHOST"
    /\ hostMain.responses[1].cmdId = "p1"
    /\ hostMain.responses[1].answers = 2

----------------------------------------------------------------------------
(* The roster of the dashboard: renderer.js *)

MaxPackets == 3
MaxRosterTicks == 3

HEARTBEAT_TIMEOUT_MS == 10000

(* the step by which the clock of the dashboard advances, in milliseconds:
   first a whole timeout, then half seconds *)
ClockStep(ticks) == IF ticks = 0 THEN HEARTBEAT_TIMEOUT_MS ELSE 500

(* Number.parseInt(portInput.value, 10) || 3939, the field holding "3939" *)
DefaultCommandPort == 3939

(* JavaScript truthiness of a string-valued field, and value !== undefined &&
   value !== null *)
Truthy(value) == value \notin {Undefined, Null, ""}

NotAbsent(value) == value \notin {Undefined, Null}

(* String(message.action ?? '').toLowerCase() on the actions in use *)
LowerCaseAction(s) ==
    CASE s \in {"RegisterClient", "registerclient"} -> "registerclient"
      [] s \in {"Heartbeat", "HEARTBEAT", "heartbeat"} -> "heartbeat"
      [] s = "HostAnnouncement" -> "hostannouncement"
      [] s \in {Undefined, Null} -> ""
      [] OTHER -> s

(* The payload of a registration or heartbeat as the device wrote it *)
DevicePayload(deviceId, deviceID, deviceName, platform, version, ipv4, scene, commandPort) ==
    [deviceId |-> deviceId, deviceID |-> deviceID, deviceName |-> deviceName,
     platform |-> platform, buildVersion |-> version, ipv4 |-> ipv4,
     scene |-> scene, commandPort |-> commandPort]

RegisterAbc ==
    DevicePayload("abc", Undefined, "Quest", "Android", "1.0", "10.0.0.21",
                  "Lobby", 3940)

HeartbeatAbc ==
    DevicePayload("abc", Undefined, Undefined, Undefined, Undefined, Undefined,
                  "Game", NoPort)

HeartbeatAbcBare ==
    DevicePayload(Undefined, "abc", Undefined, Null, Undefined, Undefined,
                  Undefined, NoPort)

HeartbeatAnonymous ==
    DevicePayload(Undefined, Undefined, "Rift", Undefined, Undefined, Undefined,
                  "", NoPort)

RegisterXyz ==
    DevicePayload("xyz", Undefined, "", Undefined, Undefined, "", "Lobby", 0)

(* The packets the main process forwards on 'udp:message': the source of the
   datagram and its text, here already parsed (parsed = FALSE: the text is not
   JSON; hasPayload = FALSE: message.payload is missing or not JSON) *)
Packet(address, port, parsed, action, hasPayload, payload) ==
    [address |-> address, port |-> port, parsed |-> parsed, action |-> action,
     hasPayload |-> hasPayload, payload |-> payload]

RosterInbound ==
    { Packet("10.0.0.21", 5001, TRUE, "RegisterClient", TRUE, RegisterAbc),
      Packet("10.0.0.22", 5002, TRUE, "heartbeat", TRUE, HeartbeatAbc),
      Packet("10.0.0.21", 5001, TRUE, "HEARTBEAT", TRUE, HeartbeatAbcBare),
      Packet("10.0.0.22", 5002, TRUE, "Heartbeat", TRUE, HeartbeatAnonymous),
      Packet("10.0.0.22", 5002, TRUE, "RegisterClient", TRUE, RegisterXyz),
      Packet("10.0.0.21", 5001, TRUE, "Ack", TRUE, RegisterXyz),
      Packet("10.0.0.21", 5001, FALSE, Undefined, FALSE, HeartbeatAbc) }

(* the record processInboundPacket hands to upsertClient *)
RecordOf(payload) ==
    [deviceId |-> IF NotAbsent(payload.deviceId) THEN payload.deviceId
                  ELSE payload.deviceID,
     deviceName |-> payload.deviceName,
     platform |-> payload.platform,
     buildVersion |-> payload.buildVersion,
     ipv4 |-> payload.ipv4,
     scene |-> payload.scene,
     commandPort |-> payload.commandPort]

(* now - device.lastSeen > HEARTBEAT_TIMEOUT_MS *)
IsOfflineInclusive(at, lastSeen) == at - lastSeen >= HEARTBEAT_TIMEOUT_MS

IsOffline(at, lastSeen) == at - lastSeen > HEARTBEAT_TIMEOUT_MS

(* updateDeviceStats(): the two counts it writes *)
updateDeviceStats(r) ==
    LET offline == {k \in DOMAIN r.clients :
                        IsOffline(r.clock, r.clients[k].lastSeen)}
    IN [online |-> Cardinality(DOMAIN r.clients) - Cardinality(offline),
        offline |-> Cardinality(offline)]

(* renderDeviceGrid(): selected keys that are unknown or offline are dropped,
   every card is drawn online or offline, then updateDeviceStats().  The
   order of the cards is not kept. *)
renderDeviceGrid(r) ==
    LET offline == {k \in DOMAIN r.clients :
                        IsOffline(r.clock, r.clients[k].lastSeen)}
    IN [r EXCEPT !.selectedDevices = (@ \cap DOMAIN r.clients) \ offline,
                 !.displayed = [k \in DOMAIN r.clients |-> k \notin offline],
                 !.displayedAt = r.clock,
                 !.stats = updateDeviceStats(r),
                 !.everOffline = @ \cup offline]

(* `client-${clients.size + 1}` *)
PlaceholderKey(size) ==
    CASE size = 0 -> "client-1"
      [] size = 1 -> "client-2"
      [] size = 2 -> "client-3"
      [] size = 3 -> "client-4"
      [] OTHER -> "client-5"

(* payload?.deviceId || packet.address || `client-${clients.size + 1}` *)
RosterKeyAddressFirst(clients, address, record) ==
    IF Truthy(address) THEN address
    ELSE IF Truthy(record.deviceId) THEN record.deviceId
    ELSE PlaceholderKey(Cardinality(DOMAIN clients))

RosterKey(clients, address, record) ==
    IF Truthy(record.deviceId) THEN record.deviceId
    ELSE IF Truthy(address) THEN address
    ELSE PlaceholderKey(Cardinality(DOMAIN clients))

(* the entry upsertClient starts from when the key is new *)
NewEntry(key, packet, record, at) ==
    [deviceId |-> IF Truthy(record.deviceId) THEN record.deviceId ELSE key,
     deviceName |-> IF Truthy(record.deviceName) THEN record.deviceName ELSE "",
     platform |-> IF Truthy(record.platform) THEN record.platform ELSE "",
     buildVersion |-> IF Truthy(record.buildVersion) THEN record.buildVersion
                      ELSE "",
     ipv4 |-> IF Truthy(record.ipv4) THEN record.ipv4 ELSE packet.address,
     scene |-> IF Truthy(record.scene) THEN record.scene ELSE "",
     commandPort |-> record.commandPort,
     remoteAddress |-> packet.address,
     remotePort |-> packet.port,
     firstSeen |-> at,
     lastSeen |-> at]

(* { ...current, remoteAddress, remotePort, lastSeen: now } *)
RefreshKeepLastSeen(current, packet, at) ==
    [current EXCEPT !.remoteAddress = packet.address,
                    !.remotePort = packet.port]

Refresh(current, packet, at) ==
    [current EXCEPT !.remoteAddress = packet.address,
                    !.remotePort = packet.port,
                    !.lastSeen = at]

(* Object.entries(payload ?? {}).forEach: a value that is neither undefined
   nor null is written over the field of the same name *)
MergeFieldsAlways(entry, record) ==
    [entry EXCEPT !.deviceId = record.deviceId,
                  !.deviceName = record.deviceName,
                  !.platform = record.platform,
                  !.buildVersion = record.buildVersion,
                  !.ipv4 = record.ipv4,
                  !.scene = record.scene,
                  !.commandPort = record.commandPort]

MergeFields(entry, record) ==
    [entry EXCEPT
        !.deviceId = IF NotAbsent(record.deviceId) THEN record.deviceId ELSE @,
        !.deviceName = IF NotAbsent(record.deviceName) THEN record.deviceName
                       ELSE @,
        !.platform = IF NotAbsent(record.platform) THEN record.platform ELSE @,
        !.buildVersion = IF NotAbsent(record.buildVersion)
                         THEN record.buildVersion ELSE @,
        !.ipv4 = IF NotAbsent(record.ipv4) THEN record.ipv4 ELSE @,
        !.scene = IF NotAbsent(record.scene) THEN record.scene ELSE @,
        !.commandPort = IF record.commandPort # NoPort THEN record.commandPort
                        ELSE @]

(* the defaults upsertClient fills in after the merge *)
FillDefaults(updated, current, packet) ==
    LET withIpv4 == [updated EXCEPT
                        !.ipv4 = IF Truthy(@) THEN @ ELSE packet.address,
                        !.scene = IF Truthy(@) THEN @ ELSE current.scene,
                        !.commandPort = IF @ \notin {NoPort, 0} THEN @
                                        ELSE DefaultCommandPort]
    IN IF Truthy(withIpv4.deviceName) THEN withIpv4
       ELSE [withIpv4 EXCEPT !.deviceName = withIpv4.deviceId]

(* clients.set(key, updated) *)
SetClientAlone(clients, key, updated) == [k \in {key} |-> updated]

SetClient(clients, key, updated) ==
    [k \in DOMAIN clients \cup {key} |->
        IF k = key THEN updated ELSE clients[k]]

(* upsertClient(packet, payload), renderDeviceGrid() included *)
upsertClient(r, packet, record) ==
    LET key == RosterKey(r.clients, packet.address, record)
        at == r.clock
        created == key \notin DOMAIN r.clients
        current == IF created THEN NewEntry(key, packet, record, at)
                   ELSE r.clients[key]
        refreshed == Refresh(current, packet, at)
        updated == FillDefaults(MergeFields(refreshed, record), current, packet)
    IN renderDeviceGrid(
         [r EXCEPT !.clients = SetClient(r.clients, key, updated),
                   !.lastUpsert = [applied |-> TRUE, key |-> key,
                                   address |-> packet.address,
                                   port |-> packet.port, record |-> record,
                                   created |-> created, at |-> at]])

(* processInboundPacket(packet).  The host announcement it applies and the log
   it appends to are no part of the roster. *)
processInboundPacket(r, packet) ==
    LET action == LowerCaseAction(packet.action)
    IN IF ~packet.parsed \/ action = "hostannouncement" \/ ~packet.hasPayload
       THEN r
       ELSE IF action \in {"registerclient", "heartbeat"}
            THEN upsertClient(r, packet, RecordOf(packet.payload))
            ELSE r

rendererFrame == <<config, listenerState, pure, hostMain, udpReporter>>

(* window.udpHost.onMessage: a packet arrives *)
RendererReceive(inbound) ==
    /\ renderer.packets < MaxPackets
    /\ \E packet \in inbound :
         renderer' = [processInboundPacket(renderer, packet)
                         EXCEPT !.packets = @ + 1,
                                !.lastUpsert =
                                    IF @ = renderer.lastUpsert
                                    THEN [@ EXCEPT !.applied = FALSE] ELSE @]
    /\ UNCHANGED rendererFrame

RendererOnMessage == RendererReceive(RosterInbound)

(* setInterval(renderDeviceGrid, 15000) *)
RenderTimer ==
    /\ renderer' = renderDeviceGrid(renderer)
    /\ renderer' # renderer
    /\ UNCHANGED rendererFrame

(* toggleDeviceSelection(key), a click on the card of key *)
toggleDeviceSelection(r, key) ==
    IF key \notin DOMAIN r.clients
    THEN renderDeviceGrid([r EXCEPT !.selectedDevices = @ \ {key}])
    ELSE IF IsOffline(r.clock, r.clients[key].lastSeen) THEN r
    ELSE renderDeviceGrid(
           [r EXCEPT !.selectedDevices =
                IF key \in @ THEN @ \ {key} ELSE @ \cup {key}])

ToggleDeviceSelection ==
    /\ \E key \in DOMAIN renderer.clients :
         renderer' = toggleDeviceSelection(renderer, key)
    /\ renderer' # renderer
    /\ UNCHANGED rendererFrame

(* selectAllDevices() *)
selectAllDevices(r) ==
    renderDeviceGrid(
      [r EXCEPT !.selectedDevices =
          @ \cup {k \in DOMAIN r.clients :
                     r.clock - r.clients[k].lastSeen <= HEARTBEAT_TIMEOUT_MS}])

SelectAllDevices ==
    /\ renderer' = selectAllDevices(renderer)
    /\ renderer' # renderer
    /\ UNCHANGED rendererFrame

(* clearDeviceSelection() *)
clearDeviceSelection(r) ==
    IF r.selectedDevices = {} THEN r
    ELSE renderDeviceGrid([r EXCEPT !.selectedDevices = {}])

ClearDeviceSelection ==
    /\ renderer.selectedDevices # {}
    /\ renderer' = clearDeviceSelection(renderer)
    /\ UNCHANGED rendererFrame

(* time passes on the dashboard *)
RendererTick ==
    /\ renderer.ticks < MaxRosterTicks
    /\ renderer' = [renderer EXCEPT !.clock = @ + ClockStep(renderer.ticks),
                                    !.ticks = @ + 1]
    /\ UNCHANGED rendererFrame

InitRoster ==
    /\ sharedSecret = ""
    /\ staleCommandWindowSeconds = DefaultStaleWindow
    /\ sendAcknowledgement = TRUE
    /\ enabled = FALSE
    /\ mainPc = "idle"
    /\ _isListening = FALSE
    /\ _receiveClient = Null
    /\ _ackClient = Null
    /\ listenerPc = "none"
    /\ buffer = NoDatagram
    /\ orphans = {}
    /\ _pendingCommands = <<>>
    /\ _processedCommands = EmptyCache
    /\ now = StartMillis
    /\ received = 0
    /\ verdicts = <<>>
    /\ events = <<>>
    /\ sIn = Null
    /\ sOut = Null
    /\ burst = 0
    /\ hostMain = HostOff
    /\ udpReporter = ReporterOff
    /\ renderer = RendererOff

NextRoster ==
    \/ RendererOnMessage
    \/ RenderTimer
    \/ ToggleDeviceSelection
    \/ SelectAllDevices
    \/ ClearDeviceSelection
    \/ RendererTick

SpecRoster == InitRoster /\ [][NextRoster]_vars

----------------------------------------------------------------------------
(* The multi-target send of the dashboard: the form submit handler of
   renderer.js *)

MaxSubmits == 1

(* an ipv4 value that is not a string, as in {"deviceId": "odd", "ipv4": 5} *)
NotAString == "<number>"

IsJsString(value) == value \notin {Undefined, Null, NotAString}

(* String.prototype.trim on the addresses in use *)
Trim(s) == IF s \in {"", " ", "  "} THEN "" ELSE s

RegisterBlank ==
    DevicePayload("xyz", Undefined, "Rift", Undefined, Undefined, "  ",
                  Undefined, NoPort)

RegisterOdd ==
    DevicePayload("odd", Undefined, "Pico", Undefined, Undefined, NotAString,
                  Undefined, NoPort)

SendInbound ==
    { Packet("10.0.0.21", 5001, TRUE, "RegisterClient", TRUE, RegisterAbc),
      Packet("10.0.0.22", 5002, TRUE, "RegisterClient", TRUE, RegisterBlank),
      Packet("10.0.0.23", 5003, TRUE, "RegisterClient", TRUE, RegisterOdd),
      Packet("10.0.0.24", 5004, TRUE, "Heartbeat", TRUE, HeartbeatAnonymous) }

SendOnMessage == RendererReceive(SendInbound)

(* Array.from(selectedDevices).map(key => clients.get(key)).filter(Boolean):
   the Set keeps the order in which the keys were selected, here any order *)
SelectedTargets(r) ==
    LET keys == r.selectedDevices \cap DOMAIN r.clients
    IN {order \in [1..Cardinality(keys) -> keys] :
            \A i, j \in 1..Cardinality(keys) : order[i] = order[j] => i = j}

(* the manual target of the form: hostInput.value.trim() *)
ManualHosts == {"", "10.0.0.50"}

Failure(device, reason) == [deviceId |-> device.deviceId, reason |-> reason]

(* The for loop over selectedTargets from target i on, up to the next await:
   a target without an address is recorded as a failure and skipped, the
   first target with one is handed to window.udpHost.sendCommand; .trim() of
   an address that is not a string throws outside the try block and the
   handler ends there, rejected; after the last target the status line is
   written. *)
RECURSIVE SendLoop(_, _)
SendLoop(b, i) ==
    IF i > Len(b.targets)
    THEN [b EXCEPT !.pc = "done", !.index = i,
                   !.status = IF Len(b.failures) > 0 THEN "some failed"
                              ELSE "all sent"]
    ELSE LET device == b.targets[i]
             address == IF Truthy(device.ipv4) THEN device.ipv4
                        ELSE IF Truthy(device.remoteAddress)
                             THEN device.remoteAddress ELSE ""
         IN IF ~IsJsString(address)
            THEN [b EXCEPT !.pc = "rejected", !.index = i]
            ELSE IF Trim(address) = ""
                 THEN SendLoop(
                        [b EXCEPT !.failures =
                            Append(@, Failure(device, "missing IP"))], i + 1)
                 ELSE [b EXCEPT !.pc = "awaiting", !.index = i,
                                !.sends = Append(@,
                                    [host |-> Trim(address),
                                     port |-> device.commandPort])]

(* the submit handler up to its first await.  formOk: the payload, the action
   and the port of the form pass the three checks; with no device selected
   the manual target is used.  One submission is followed at a time. *)
SubmitCommand ==
    /\ renderer.batch.pc \notin {"awaiting", "awaiting manual"}
    /\ renderer.batch.submits < MaxSubmits
    /\ \E formOk \in BOOLEAN, manual \in ManualHosts,
          order \in SelectedTargets(renderer) :
         LET start == [NoBatch EXCEPT
                          !.submits = renderer.batch.submits + 1,
                          !.targets = [i \in DOMAIN order |->
                                          renderer.clients[order[i]]]]
         IN renderer' = [renderer EXCEPT !.batch =
              IF ~formOk
              THEN [start EXCEPT !.pc = "done", !.targets = <<>>,
                                 !.status = "form not valid"]
              ELSE IF Len(start.targets) > 0 THEN SendLoop(start, 1)
              ELSE IF manual = ""
                   THEN [start EXCEPT !.pc = "done",
                                      !.status = "no target"]
                   ELSE [start EXCEPT !.pc = "awaiting manual",
                            !.sends = <<[host |-> manual,
                                         port |-> DefaultCommandPort]>>]]
    /\ UNCHANGED rendererFrame

(* window.udpHost.sendCommand settles: resolved (ok) or rejected *)
SendSettled ==
    /\ renderer.batch.pc = "awaiting"
    /\ \E ok \in BOOLEAN :
         LET b == renderer.batch
             counted ==
                IF ok THEN [b EXCEPT !.successCount = @ + 1]
                ELSE [b EXCEPT !.failures =
                        Append(@, Failure(b.targets[b.index], "send error"))]
         IN renderer' = [renderer EXCEPT !.batch =
                            SendLoop(counted, b.index + 1)]
    /\ UNCHANGED rendererFrame

ManualSendSettled ==
    /\ renderer.batch.pc = "awaiting manual"
    /\ \E ok \in BOOLEAN :
         renderer' = [renderer EXCEPT
                        !.batch.pc = "done",
                        !.batch.status = IF ok THEN "sent" ELSE "send failed"]
    /\ UNCHANGED rendererFrame

NextSend ==
    \/ SendOnMessage
    \/ ToggleDeviceSelection
    \/ SelectAllDevices
    \/ ClearDeviceSelection
    \/ SubmitCommand
    \/ SendSettled
    \/ ManualSendSettled

SpecSend == InitRoster /\ [][NextSend]_vars

----------------------------------------------------------------------------
(* Claims about the roster *)

Roster == renderer.clients

(* the step applied a registration or heartbeat to the roster *)
Upserted == renderer'.packets # renderer.packets /\ renderer'.lastUpsert.applied

(* C24: every entry is reported online exactly when now - lastSeen <= 10 s,
   now being the time of the read: the cards drawn by the last render and
   the counts of updateDeviceStats agree with that, and the entry a record
   has just been applied to is drawn online at once. *)
C24_State ==
    /\ DOMAIN renderer.displayed = DOMAIN Roster
    /\ \A k \in DOMAIN Roster :
         renderer.displayed[k] <=>
            renderer.displayedAt - Roster[k].lastSeen <= 10000
    /\ renderer.stats.online =
         Cardinality({k \in DOMAIN Roster :
                        renderer.displayedAt - Roster[k].lastSeen <= 10000})
    /\ renderer.stats.online + renderer.stats.offline =
         Cardinality(DOMAIN Roster)

C24_Step ==
    Upserted =>
        /\ renderer'.displayedAt = renderer'.clock
        /\ renderer'.displayed[renderer'.lastUpsert.key]

C24_OnlineWithinTimeout == []C24_State /\ [][C24_Step]_vars

(* two records for abc 11 s apart: abc was drawn offline in between and is
   drawn online by the render of the second record *)
C24_Witness ==
    /\ "abc" \in DOMAIN Roster
    /\ Roster["abc"].firstSeen = 0
    /\ Roster["abc"].lastSeen = 11000
    /\ "abc" \in renderer.everOffline
    /\ renderer.displayedAt = 11000
    /\ renderer.displayed["abc"]

(* the read at the 10.5 s mark *)
C24_WitnessOffline ==
    /\ "abc" \in DOMAIN Roster
    /\ Roster["abc"].lastSeen = 0
    /\ renderer.displayedAt = 10500
    /\ ~renderer.displayed["abc"]
    /\ renderer.stats.offline = 1

TextFields ==
    {"deviceId", "deviceName", "platform", "buildVersion", "ipv4", "scene"}

(* C25: upsertClient writes only the non-absent fields of the record into
   the existing entry: a field that is undefined or null in the record
   leaves the stored value as it was; lastSeen and the observed address and
   port are refreshed by every applied record. *)
C25_Step ==
    Upserted =>
        LET u == renderer'.lastUpsert
            new == Roster'[u.key]
        IN /\ new.lastSeen = renderer.clock
           /\ new.remoteAddress = u.address
           /\ new.remotePort = u.port
           /\ ~u.created =>
                LET old == Roster[u.key]
                IN /\ \A f \in TextFields :
                        u.record[f] \in {Undefined, Null} => new[f] = old[f]
                   /\ u.record.commandPort = NoPort =>
                        new.commandPort = old.commandPort
                   /\ new.firstSeen = old.firstSeen

C25_MergesOnlyPresentFields == [][C25_Step]_vars

(* a heartbeat naming only the scene, from another address, has been applied
   to the registered entry of abc *)
C25_Witness ==
    /\ renderer.lastUpsert.applied
    /\ ~renderer.lastUpsert.created
    /\ renderer.lastUpsert.key = "abc"
    /\ renderer.lastUpsert.record.deviceName = Undefined
    /\ renderer.lastUpsert.record.commandPort = NoPort
    /\ Roster["abc"].deviceName = "Quest"
    /\ Roster["abc"].platform = "Android"
    /\ Roster["abc"].ipv4 = "10.0.0.21"
    /\ Roster["abc"].commandPort = 3940
    /\ Roster["abc"].scene = "Game"
    /\ Roster["abc"].remoteAddress = "10.0.0.22"
    /\ Roster["abc"].remotePort = 5002
    /\ Roster["abc"].lastSeen > Roster["abc"].firstSeen

(* the record being applied is the one applied last, from the same source *)
AppliedAgain ==
    /\ Upserted
    /\ renderer.lastUpsert.key # Null
    /\ renderer'.lastUpsert.record = renderer.lastUpsert.record
    /\ renderer'.lastUpsert.address = renderer.lastUpsert.address
    /\ renderer'.lastUpsert.port = renderer.lastUpsert.port

(* the fields of an entry other than lastSeen *)
VisibleFields(entry) == [entry EXCEPT !.lastSeen = 0]

(* C26, as stated: the second application of the same record from the same
   source leaves the visible fields as they were after the first and strictly
   advances lastSeen. *)
C26_StepStrict ==
    AppliedAgain =>
        LET k == renderer'.lastUpsert.key
        IN /\ VisibleFields(Roster'[k]) = VisibleFields(Roster[k])
           /\ Roster'[k].lastSeen > Roster[k].lastSeen

C26_LastSeenStrictlyAdvances == [][C26_StepStrict]_vars

(* C26, amended: the second application leaves the visible fields as they
   were after the first and sets lastSeen to the time of the second
   application, which is later exactly when the clock has advanced between
   the two. *)
C26_Step ==
    AppliedAgain =>
        LET k == renderer'.lastUpsert.key
        IN /\ k = renderer.lastUpsert.key
           /\ VisibleFields(Roster'[k]) = VisibleFields(Roster[k])
           /\ Roster'[k].lastSeen = renderer.clock
           /\ Roster[k].lastSeen = renderer.lastUpsert.at
           /\ (renderer.clock > renderer.lastUpsert.at
                 <=> Roster'[k].lastSeen > Roster[k].lastSeen)

C26_Idempotent == [][C26_Step]_vars

(* the heartbeat of abc applied twice from 10.0.0.22, half a second apart *)
C26_Witness ==
    /\ renderer.lastUpsert.applied
    /\ ~renderer.lastUpsert.created
    /\ renderer.lastUpsert.record = RecordOf(HeartbeatAbc)
    /\ renderer.packets = 2
    /\ Roster["abc"].firstSeen = 10000
    /\ Roster["abc"].lastSeen = 10500
    /\ Roster["abc"].scene = "Game"
    /\ Roster["abc"].deviceName = "abc"

(* the same heartbeat applied twice with no time in between *)
C26_WitnessSameInstant ==
    /\ renderer.lastUpsert.applied
    /\ ~renderer.lastUpsert.created
    /\ renderer.lastUpsert.record = RecordOf(HeartbeatAbc)
    /\ renderer.packets = 2
    /\ Roster["abc"].firstSeen = Roster["abc"].lastSeen

(* the key the claim gives a record: its deviceId when it has one, else the
   source address of the datagram *)
ClaimedKey(u) ==
    IF u.record.deviceId \notin {Undefined, Null, ""} THEN u.record.deviceId
    ELSE u.address

(* C27: the roster key of a registration or heartbeat is its deviceId when
   present, else the source address, else a generated placeholder; the record
   creates or updates the entry of that key alone, so records with one
   deviceId share an entry whatever their source, and entries of other keys
   are left as they were. *)
C27_State ==
    RosterKey(Roster, "", NoRecord) =
        <<"client-1", "client-2", "client-3", "client-4", "client-5">>
            [Cardinality(DOMAIN Roster) + 1]

C27_Step ==
    Upserted =>
        LET u == renderer'.lastUpsert
        IN /\ u.key = ClaimedKey(u)
           /\ u.created <=> u.key \notin DOMAIN Roster
           /\ DOMAIN Roster' = DOMAIN Roster \cup {u.key}
           /\ \A k \in DOMAIN Roster \ {u.key} : Roster'[k] = Roster[k]

C27_KeyedByDeviceId == []C27_State /\ [][C27_Step]_vars

(* abc registered from 10.0.0.21, a record without deviceId came from
   10.0.0.22, then a heartbeat of abc from 10.0.0.22 *)
C27_Witness ==
    /\ renderer.lastUpsert.applied
    /\ ~renderer.lastUpsert.created
    /\ renderer.lastUpsert.key = "abc"
    /\ renderer.lastUpsert.address = "10.0.0.22"
    /\ DOMAIN Roster = {"abc", "10.0.0.22"}
    /\ Roster["abc"].platform = "Android"
    /\ Roster["abc"].remoteAddress = "10.0.0.22"
    /\ Roster["10.0.0.22"].deviceName = "Rift"
    /\ Roster["10.0.0.22"].deviceId = "10.0.0.22"
    /\ Roster["10.0.0.22"].scene = ""

(* C28: roster membership only grows: no record, no passage of time and no
   dashboard operation removes an entry; an entry that stops reporting stays
   in the roster, drawn offline. *)
C28_State ==
    /\ renderer.everOffline \subseteq DOMAIN Roster
    /\ DOMAIN renderer.displayed = DOMAIN Roster

C28_Step == DOMAIN Roster \subseteq DOMAIN Roster'

C28_MembershipOnlyGrows == []C28_State /\ [][C28_Step]_vars

(* abc has not reported for 11 s and is drawn offline, xyz has just
   registered *)
C28_Witness ==
    /\ DOMAIN Roster = {"abc", "xyz"}
    /\ renderer.clock = 11000
    /\ Roster["abc"].lastSeen = 0
    /\ ~renderer.displayed["abc"]
    /\ renderer.displayed["xyz"]
    /\ renderer.lastUpsert.key = "xyz"

----------------------------------------------------------------------------
(* Claims about the multi-target send *)

Batch == renderer.batch

(* C29: a multi-target send visits every selected target in turn; a failure
   on one target never prevents the sends to the rest; when the batch ends,
   successes plus recorded failures equal the number of targets, and the
   handler raises no error of its own. *)
C29_EveryTargetVisited ==
    /\ Batch.pc # "rejected"
    /\ Batch.pc = "awaiting" =>
          Batch.successCount + Len(Batch.failures) = Batch.index - 1
    /\ (Batch.pc = "done" /\ Len(Batch.targets) > 0) =>
          /\ Batch.successCount + Len(Batch.failures) = Len(Batch.targets)
          /\ Batch.index = Len(Batch.targets) + 1
          /\ Batch.status \in {"all sent", "some failed"}

(* every target of the batch has an address that is a string *)
TextAddresses ==
    \A i \in DOMAIN Batch.targets : IsJsString(Batch.targets[i].ipv4)

(* C29, for batches whose targets all have text addresses: a missing address
   and a failed send are recorded and the loop goes on to the end. *)
C29_CompletesOnTextAddresses == TextAddresses => C29_EveryTargetVisited

(* a batch of two: the target without address was skipped, the send to the
   other failed, both are recorded *)
C29_WitnessBothFailed ==
    /\ Batch.pc = "done"
    /\ Len(Batch.targets) = 2
    /\ Batch.successCount = 0
    /\ Len(Batch.failures) = 2
    /\ Batch.failures[1].reason = "missing IP"
    /\ Batch.failures[2].reason = "send error"
    /\ Batch.status = "some failed"

(* a batch of three whose first target has a number for its address: the
   handler has ended with nothing sent *)
C29_WitnessRejected ==
    /\ Batch.pc = "rejected"
    /\ Len(Batch.targets) = 3
    /\ Batch.index = 1
    /\ Batch.sends = <<>>
    /\ Batch.status = ""

----------------------------------------------------------------------------
(* Pruning of the processed-id cache: UdpCommandListener.PruneProcessedCommands
   as RegisterCommandId calls it, with windows below and above one second and
   a clock that advances by whole seconds *)

MaxPruneTicks == 2

PruneWindows == {0, 500, 1000, 2500, DefaultStaleWindow}

InitPrune ==
    /\ sharedSecret = ""
    /\ staleCommandWindowSeconds \in PruneWindows
    /\ sendAcknowledgement = TRUE
    /\ enabled = FALSE
    /\ mainPc = "idle"
    /\ _isListening = FALSE
    /\ _receiveClient = Null
    /\ _ackClient = Null
    /\ listenerPc = "none"
    /\ buffer = NoDatagram
    /\ orphans = {}
    /\ _pendingCommands = <<>>
    /\ _processedCommands \in StartCaches
    /\ now = StartMillis
    /\ received = 0
    /\ verdicts = <<>>
    /\ events = <<>>
    /\ sIn = [cmdId |-> Null]
    /\ sOut = [stage |-> "idle"]
    /\ burst = 0
    /\ hostMain = HostOff
    /\ udpReporter = ReporterOff
    /\ renderer = RendererOff

(* one second passes *)
PruneTick ==
    /\ BigToInt(BigSub(now, StartMillis)) < MaxPruneTicks * 1000
    /\ now' = BigAdd(now, 1000)
    /\ UNCHANGED <<cacheFrame, _processedCommands, sIn, sOut, burst>>

NextPrune ==
    \/ CacheRegisterFresh
    \/ CacheRegisterRepeat
    \/ CacheRegisterAnonymous
    \/ PruneTick

SpecPrune == InitPrune /\ [][NextPrune]_vars

(* the step inserted a cmdId into a cache that held 128 or more, so that
   RegisterCommandId called PruneProcessedCommands *)
Pruned ==
    /\ _processedCommands' # _processedCommands
    /\ Cardinality(DOMAIN _processedCommands) + 1 > MaxRememberedCommandIds

(* the cache PruneProcessedCommands was called on *)
BeforePruning == (sIn'.cmdId :> NowSeconds) @@ _processedCommands

(* the age of a cache entry in milliseconds; the cache keeps whole seconds *)
EntryAge(stamp) == (NowSeconds - stamp) * 1000

(* C31, as stated: after a pruning every retained entry has age at most the
   staleness window, at most 1 second when staleness checking is disabled
   (window <= 0), and every older entry is gone. *)
ClaimedPruneWindow ==
    IF staleCommandWindowSeconds > 0 THEN staleCommandWindowSeconds ELSE 1000

C31_StepAsStated ==
    Pruned =>
        /\ \A k \in DOMAIN _processedCommands' :
              EntryAge(_processedCommands'[k]) <= ClaimedPruneWindow
        /\ \A k \in DOMAIN BeforePruning :
              EntryAge(BeforePruning[k]) > ClaimedPruneWindow
                  => k \notin DOMAIN _processedCommands'

C31_RetainedWithinWindow == [][C31_StepAsStated]_vars

(* C31, amended: after a pruning every retained entry has age at most the
   larger of the staleness window and 1 second, and every older entry is
   gone; ages are counted in whole seconds. *)
C31_Step ==
    Pruned =>
        /\ \A k \in DOMAIN _processedCommands' :
              /\ k \in DOMAIN BeforePruning
              /\ _processedCommands'[k] = BeforePruning[k]
              /\ EntryAge(_processedCommands'[k])
                    <= Max(1000, staleCommandWindowSeconds)
        /\ \A k \in DOMAIN BeforePruning :
              EntryAge(BeforePruning[k]) > Max(1000, staleCommandWindowSeconds)
                  => k \notin DOMAIN _processedCommands'

C31_RetainedWithinFlooredWindow == [][C31_Step]_vars

(* window 2.5 s: the 127 ids of two seconds ago were kept by the pruning of
   the insertion before, and this one kept them again *)
C31_Witness ==
    /\ staleCommandWindowSeconds = 2500
    /\ burst = 3
    /\ sOut.stage = "registered"
    /\ sIn.cmdId = ToString(Registered + 3)
    /\ CacheSize = Registered + 3
    /\ "1" \in DOMAIN _processedCommands
    /\ EntryAge(_processedCommands["1"]) = 2000

(* window 1 s: the ids of two seconds ago were removed by the pruning *)
C31_WitnessRemoved ==
    /\ staleCommandWindowSeconds = 1000
    /\ burst = 2
    /\ sIn.cmdId = ToString(Registered + 2)
    /\ BigToInt(BigSub(now, StartMillis)) = 2000
    /\ CacheSize <= 2
    /\ "1" \notin DOMAIN _processedCommands

(* window 0.5 s: an id of one second ago was kept by the pruning *)
C31_WitnessBelowOneSecond ==
    /\ staleCommandWindowSeconds = 500
    /\ burst = 2
    /\ sIn.cmdId = ToString(Registered + 2)
    /\ CacheSize = Registered + 2
    /\ EntryAge(_processedCommands["1"]) = 1000

----------------------------------------------------------------------------
(* Specification SpecReplay: a listening UdpCommandListener receives copies of
   one signed envelope that differ in cmdId only, next to forged, unsigned
   and old ones *)

(* an envelope stamped one minute before the start of the run *)
OldEnvelope(cmdId, signer) ==
    LET stamp == BigSub(StartMillis, Big(0, 60000))
    IN [action |-> "Beep", timestamp |-> stamp, cmdId |-> cmdId,
        signature |-> Hmac(signer, "Beep||" \o LongToString(stamp))]

ReplayDatagrams ==
    {[kind |-> "json", json |-> Envelope("Beep", c, SenderSecret),
      remote |-> HostEndpoint] : c \in {Null, "c1", "c2"}}
    \cup {[kind |-> "json", json |-> Envelope("Beep", "c1", "guess!"),
           remote |-> OtherEndpoint],
          [kind |-> "json", json |-> Envelope("Beep", "c1", Null),
           remote |-> OtherEndpoint],
          [kind |-> "json", json |-> OldEnvelope("c1", SenderSecret),
           remote |-> OtherEndpoint]}

InitReplay ==
    /\ sharedSecret \in {"", SenderSecret}
    /\ staleCommandWindowSeconds = DefaultStaleWindow
    /\ sendAcknowledgement = TRUE
    /\ enabled = TRUE
    /\ mainPc = "idle"
    /\ _isListening = TRUE
    /\ _receiveClient = "open"
    /\ _ackClient = "open"
    /\ listenerPc = "receive"
    /\ buffer = NoDatagram
    /\ orphans = {}
    /\ _pendingCommands = <<>>
    /\ _processedCommands = EmptyCache
    /\ now = StartMillis
    /\ received = 0
    /\ verdicts = <<>>
    /\ events = <<>>
    /\ sIn = Null
    /\ sOut = Null
    /\ burst = 0
    /\ hostMain = HostOff
    /\ udpReporter = ReporterOff
    /\ renderer = RendererOff

ReplayReceive == ReceiveFrom(ReplayDatagrams)

NextReplay ==
    \/ ReplayReceive
    \/ Process
    \/ Update
    \/ Tick

SpecReplay == InitReplay /\ [][NextReplay]_vars

(* the cmdIds an envelope may be given on its way *)
ReplayIds == {Null, "", "c1", "c2", "zz"}

(* the envelope passes the signature and the staleness check and its cmdId,
   if it has one, is not in the cache *)
Admissible(message) ==
    /\ IsAuthorized(message)
    /\ ~IsStale(message)
    /\ IsNullOrEmpty(message.cmdId) \/ message.cmdId \notin DOMAIN _processedCommands

(* the signature on the wire is the HMAC of the canonical string under the
   listener's secret *)
ValidlySigned(json) ==
    JsonString(json, "signature") = Hmac(sharedSecret, WireCanonical(json))

(* C33: IsAuthorized gives an envelope the same result whatever its cmdId, so
   a validly signed envelope sent again within the staleness window with a
   changed or removed cmdId passes authentication and duplicate suppression,
   is queued and is dispatched again. *)
C33_Step ==
    /\ \A d \in Judged :
          /\ \A c \in ReplayIds :
                IsAuthorized(FromJson(WithField(d.json, "cmdId", c)))
                    = IsAuthorized(FromJson(d.json))
          /\ Admissible(FromJson(d.json)) <=> verdicts'[d.seq] = "admitted"
          /\ \A c \in ReplayIds :
                ValidlySigned(d.json)
                    => IsAuthorized(FromJson(WithField(d.json, "cmdId", c)))
          /\ Admissible(FromJson(d.json)) =>
                PendingCommand(d) \in QueueOf(_pendingCommands')
    /\ (_pendingCommands # <<>> /\ _pendingCommands' = <<>>) =>
          \A p \in QueueOf(_pendingCommands) :
              \E e \in NewEvents : e.kind = "handler" /\ e.seq = p.seq

C33_AuthIgnoresCmdId == [][C33_Step]_vars

(* with the secret set, the envelope was dispatched as c1 and again as c2 *)
C33_Witness ==
    /\ sharedSecret = SenderSecret
    /\ DOMAIN _processedCommands = {"c1", "c2"}
    /\ verdicts = <<"admitted", "admitted">>
    /\ \A n \in {1, 2} : \E e \in EventsOf(events) : e.kind = "handler" /\ e.seq = n

(* with the secret set, the envelope was dispatched as c1 and again without
   cmdId *)
C33_WitnessRemoved ==
    /\ sharedSecret = SenderSecret
    /\ DOMAIN _processedCommands = {"c1"}
    /\ verdicts = <<"admitted", "admitted">>
    /\ \A n \in {1, 2} : \E e \in EventsOf(events) : e.kind = "handler" /\ e.seq = n

(* C34: an envelope rejected as unauthorized or as stale leaves the
   processed-id cache as it was, so a later authentic and fresh envelope
   with the same cmdId is admitted. *)
C34_Step ==
    \A d \in Judged :
        /\ verdicts'[d.seq] \in {"unauthorized", "stale"} =>
              _processedCommands' = _processedCommands
        /\ (IsAuthorized(FromJson(d.json)) /\ ~IsStale(FromJson(d.json))
              /\ \A n \in DOMAIN verdicts :
                    n # d.seq => verdicts[n] \in {"unauthorized", "stale"})
              => verdicts'[d.seq] = "admitted"

C34_RejectedLeavesCache == [][C34_Step]_vars

(* the forged or unsigned c1 was rejected, the signed c1 after it admitted *)
C34_Witness ==
    /\ sharedSecret = SenderSecret
    /\ verdicts = <<"unauthorized", "admitted">>
    /\ Len(_pendingCommands) = 1
    /\ _pendingCommands[1].Message.cmdId = "c1"
    /\ _pendingCommands[1].seq = 2

(* the old c1 was dropped as stale, the signed c1 after it admitted *)
C34_WitnessStale ==
    /\ verdicts = <<"stale", "admitted">>
    /\ Len(_pendingCommands) = 1
    /\ _pendingCommands[1].Message.cmdId = "c1"

----------------------------------------------------------------------------
(* OnDisable and the pending queue *)

(* the component is disabled, OnDisable has returned and the listener is
   not listening, before and after the step *)
DisabledAndStopped ==
    /\ ~enabled /\ ~enabled'
    /\ mainPc = "idle" /\ mainPc' = "idle"
    /\ ~_isListening /\ ~_isListening'

(* C35 as stated: after OnDisable has returned the pending queue is empty,
   and it stays empty until listening is started again, also when the
   receive thread was still processing a datagram when Join(100) timed
   out. *)
C35_StepAsStated ==
    /\ (mainPc = "drain" /\ mainPc' = "idle") => _pendingCommands' = <<>>
    /\ (DisabledAndStopped /\ _pendingCommands = <<>>) => _pendingCommands' = <<>>

C35_QueueStaysEmpty == [][C35_StepAsStated]_vars

(* What OnDisable does guarantee: the queue is empty when OnDisable returns,
   and it stays empty while the listener is stopped provided no receive
   thread outlived the join. *)
C35_Step ==
    /\ (mainPc = "drain" /\ mainPc' = "idle") => _pendingCommands' = <<>>
    /\ (DisabledAndStopped /\ _pendingCommands = <<>> /\ orphans = {}) =>
          _pendingCommands' = <<>>

C35_QueueStaysEmptyWithoutOrphan == [][C35_Step]_vars

(* a datagram received before OnDisable sits in the queue of the disabled,
   stopped component *)
C35_WitnessLateEnqueue ==
    /\ ~enabled /\ mainPc = "idle" /\ ~_isListening
    /\ _pendingCommands # <<>>
    /\ orphans = {}
    /\ listenerPc = "none"

----------------------------------------------------------------------------
(* The processed-id cache and the listening session *)

(* C36 as stated: the processed-id cache is empty whenever the listener is
   not listening. *)
C36_EmptyWhenNotListening ==
    ~_isListening => _processedCommands = EmptyCache

(* What StopListening does guarantee: the step that stops the listener
   leaves the cache empty, and the cache of a stopped listener stays empty
   provided no receive thread outlived the join. *)
C36_Step ==
    /\ (_isListening /\ ~_isListening') => _processedCommands' = EmptyCache
    /\ (~_isListening /\ ~_isListening' /\ orphans = {}
          /\ _processedCommands = EmptyCache) => _processedCommands' = EmptyCache

C36_StopEmptiesCache == [][C36_Step]_vars

(* the same cmdId was admitted, dispatched and acknowledged twice: once in
   each of two listening sessions *)
C36_WitnessAdmittedAgain ==
    \E e, f \in EventsOf(events) :
        /\ e.kind = "ack" /\ f.kind = "ack"
        /\ e.what = "c1" /\ f.what = "c1"
        /\ e.seq # f.seq

(* a cancelled receive thread has registered a cmdId in the cache of the
   stopped listener *)
C36_WitnessLateRegister ==
    /\ ~_isListening
    /\ orphans = {}
    /\ "c1" \in DOMAIN _processedCommands

----------------------------------------------------------------------------
(* Automatic registration and the heartbeat loop *)

RegistrationsIn(sent) == {i \in DOMAIN sent : sent[i].action = "RegisterClient"}

NewRegistrations ==
    Cardinality(RegistrationsIn(udpReporter'.sent))
        - Cardinality(RegistrationsIn(udpReporter.sent))

(* a step of InitializeRoutine or HandleCommandReceived: not a heartbeat, a
   scene change or a RegisterClient called by the owner *)
AutomaticStep ==
    udpReporter' # udpReporter /\ udpReporter'.reports = udpReporter.reports

(* the step is a HandleCommandReceived whose announcement was applied *)
AnnouncementApplied ==
    udpReporter'.announced # udpReporter.announced /\ Applied'.called /\ Applied'.ok

AppliedDiffersNow ==
    \/ Applied'.after.hostAddress # Applied'.before.hostAddress
    \/ Applied'.after.hostPort # Applied'.before.hostPort

(* hasSentRegistration when the step reaches MaybeStartReporting *)
FlagBeforeReporting ==
    IF Applied' # Applied THEN Applied'.after.hasSentRegistration
    ELSE udpReporter.hasSentRegistration

OneLoopAtMost ==
    /\ udpReporter.loops <= 1
    /\ udpReporter.heartbeatRoutine <=> udpReporter.loops = 1

(* C38 as stated: the automatic path sends at most one RegisterClient per
   step, an applied announcement that changes neither address nor port of a
   registered host triggers none, and one that changes the address or the
   port (to a resolved host) triggers exactly one. *)
C38_StepAsStated ==
    AutomaticStep =>
        /\ NewRegistrations <= 1
        /\ (AnnouncementApplied /\ ~AppliedDiffersNow
              /\ udpReporter.hasSentRegistration) => NewRegistrations = 0
        /\ (AnnouncementApplied /\ AppliedDiffersNow
              /\ IsHostResolved(udpReporter')) => NewRegistrations = 1

C38_ChangeRegistersOnce == []OneLoopAtMost /\ [][C38_StepAsStated]_vars

C38_Step ==
    /\ AutomaticStep =>
          /\ NewRegistrations \in {0, 1}
          /\ NewRegistrations = 1 =>
                /\ udpReporter.registerOnEnable
                /\ ~FlagBeforeReporting
                /\ udpReporter'.hasSentRegistration
                /\ SentTo(udpReporter'.sent[Len(udpReporter'.sent)], udpReporter')
          /\ (AnnouncementApplied /\ ~AppliedDiffersNow
                /\ udpReporter.hasSentRegistration) => NewRegistrations = 0
          /\ (AnnouncementApplied /\ AppliedDiffersNow
                /\ IsHostResolved(udpReporter')) =>
                NewRegistrations = (IF udpReporter.registerOnEnable THEN 1 ELSE 0)
    /\ (udpReporter.hasSentRegistration /\ ~udpReporter'.hasSentRegistration) =>
          Applied' # Applied /\ Applied'.ok /\ AppliedDiffersNow

(* C38, amended: within one enable period the automatic path sends a
   RegisterClient only with registerOnEnable set and only while the
   registration flag is down, which it is from the enable or from an
   announcement that changed the address or the port until the next
   successful registration: an applied announcement with unchanged address
   and port never triggers another registration, one that arrives through
   HandleCommandReceived and changes the address or the port triggers
   exactly one with registerOnEnable set and none without it; and at most
   one heartbeat loop runs at any time. *)
C38_RegistersOncePerResolution == []OneLoopAtMost /\ [][C38_Step]_vars

(* two registrations went to two endpoints, the second after a change by
   announcement, and an unchanged announcement that followed triggered
   none; the heartbeat loop runs *)
C38_Witness ==
    /\ Cardinality(RegistrationsIn(udpReporter.sent)) = 2
    /\ \E i, j \in RegistrationsIn(udpReporter.sent) :
          udpReporter.sent[i].port # udpReporter.sent[j].port
    /\ udpReporter.reports = 0
    /\ udpReporter.announced = 2
    /\ AppliedOk /\ ~AppliedDiffers /\ Applied.before.hasSentRegistration
    /\ udpReporter.loops = 1

(* an announcement changed the port of a reporter whose registerOnEnable is
   off: no registration *)
C38_WitnessNoRegistration ==
    /\ ~udpReporter.registerOnEnable
    /\ udpReporter.announced > 0
    /\ AppliedOk /\ AppliedDiffers
    /\ IsHostResolved(udpReporter)
    /\ udpReporter.sent = <<>>

----------------------------------------------------------------------------
(* Probe replies and the shared secret *)

RoguePort == 6060

(* the host announces 10.0.0.7:5050 and signs with SenderSecret; another
   station answers probes with announcements of port 6060 that are unsigned,
   signed with a guessed secret, or a recording of an old signed one *)
SignedReply(payload, stamp, signer) ==
    LET base == [action |-> "HostAnnouncement", payload |-> payload, timestamp |-> stamp]
    IN base @@ ("signature" :>
                   IF signer = Null THEN Null ELSE Hmac(signer, AnnouncementCanonical(base)))

ProbeReplies ==
    {SignedReply([hostAddress |-> "10.0.0.7", hostPort |-> 5050], StartMillis, SenderSecret),
     SignedReply([hostAddress |-> "10.0.0.7", hostPort |-> RoguePort], StartMillis, Null),
     SignedReply([hostAddress |-> "", hostPort |-> RoguePort], StartMillis, "guess!"),
     SignedReply([hostAddress |-> "10.0.0.7", hostPort |-> RoguePort],
                 BigSub(StartMillis, Big(0, 60000)), SenderSecret),
     SignedReply([hostAddress |-> "auto", hostPort |-> RoguePort], StartMillis, Null),
     [action |-> "Pong", payload |-> NoPayload, timestamp |-> StartMillis,
      signature |-> Null]}

ProbeReply == HostReplyWith(ProbeReplies)

ProbeConfigs ==
    {[ReporterOff EXCEPT !.hostAddress = a, !.sharedSecret = s] :
        a \in {"auto", ""}, s \in {"", SenderSecret}}

InitProbe ==
    /\ sharedSecret = ""
    /\ staleCommandWindowSeconds = DefaultStaleWindow
    /\ sendAcknowledgement = TRUE
    /\ enabled = FALSE
    /\ mainPc = "idle"
    /\ _isListening = FALSE
    /\ _receiveClient = Null
    /\ _ackClient = Null
    /\ listenerPc = "none"
    /\ buffer = NoDatagram
    /\ orphans = {}
    /\ _pendingCommands = <<>>
    /\ _processedCommands = EmptyCache
    /\ now = StartMillis
    /\ received = 0
    /\ verdicts = <<>>
    /\ events = <<>>
    /\ sIn = Null
    /\ sOut = Null
    /\ burst = 0
    /\ hostMain = HostOff
    /\ udpReporter \in ProbeConfigs
    /\ renderer = RendererOff

NextProbe ==
    \/ ReporterOnEnable
    \/ AttemptTimeout
    \/ AttemptReceive
    \/ RoutineResume
    \/ ProbeReply
    \/ HeartbeatLoop

SpecProbe == InitProbe /\ [][NextProbe]_vars

(* the reply that the step took from the attempt's socket *)
TakenReplies == udpReporter.replies \ udpReporter'.replies

UsableAddress(address) ==
    ~IsNullOrWhiteSpace(address) /\ ~EqualsAutoIgnoreCase(address)

C39_Step ==
    /\ \A reply \in TakenReplies :
          LET payload == reply.message.payload
              address == ResolvedAddress(payload, HostRemote)
          IN (reply.message.action = "HostAnnouncement" /\ UsableAddress(address)) =>
                /\ IsHostResolved(udpReporter')
                /\ udpReporter'.hostAddress = address
                /\ udpReporter'.hostPort = ResolvedPort(udpReporter, payload)
                /\ udpReporter'.pc = "completed" /\ udpReporter'.result
    /\ C22_Step

(* C39: a HostAnnouncement that arrives as the reply to a probe is applied
   whatever its signature and timestamp are, with or without a shared secret
   configured: if its action is the announcement action and its address is
   usable the host becomes resolved to the announced endpoint, and every
   later registration and heartbeat goes there. *)
C39_ProbeReplyUnverified == [][C39_Step]_vars

(* with a shared secret configured, an unsigned, forged or outdated reply
   resolved the host, and the registration and a heartbeat went to the
   endpoint it announced *)
C39_Witness ==
    /\ udpReporter.sharedSecret = SenderSecret
    /\ IsHostResolved(udpReporter)
    /\ udpReporter.hostPort = RoguePort
    /\ \E i, j \in DOMAIN udpReporter.sent :
          /\ udpReporter.sent[i].action = "RegisterClient"
          /\ udpReporter.sent[j].action = "Heartbeat"
          /\ udpReporter.sent[i].port = RoguePort
          /\ udpReporter.sent[j].port = RoguePort

----------------------------------------------------------------------------
(* A failed bind of udp:set-listen-port *)

(* the bind of socket i, created for udp:set-listen-port, fails in this step *)
SetListenPortFailed(i) ==
    /\ hostMain.sockets[i].state = "binding"
    /\ hostMain'.sockets[i].state = "closed"
    /\ hostMain.callers[i] = "udp:set-listen-port"

NoListeningSocket(h) ==
    /\ h.udpSocket = 0
    /\ \A j \in DOMAIN h.sockets : h.sockets[j].state # "bound"

(* C40 as stated: a udp:set-listen-port request whose bind fails leaves the
   tool without any listening socket: every earlier socket is closed,
   udpSocket is null and listenPort keeps its value. *)
C40_StepAsStated ==
    \A i \in DOMAIN hostMain.sockets :
        SetListenPortFailed(i) =>
            /\ \A j \in 1..(i - 1) : hostMain.sockets[j].state = "closed"
            /\ NoListeningSocket(hostMain')
            /\ hostMain'.listenPort = hostMain.listenPort

C40_FailedBindLeavesNoSocket == [][C40_StepAsStated]_vars

(* What the code guarantees: the same, for a request that is the only one
   with a socket in the making; and in every case the failed socket is
   closed, never becomes udpSocket and listenPort keeps its value. *)
C40_Step ==
    \A i \in DOMAIN hostMain.sockets :
        SetListenPortFailed(i) =>
            /\ hostMain'.udpSocket # i
            /\ hostMain'.udpSocket = hostMain.udpSocket
            /\ hostMain'.listenPort = hostMain.listenPort
            /\ LiveSockets(hostMain) = {i} =>
                  /\ \A j \in 1..(i - 1) : hostMain.sockets[j].state = "closed"
                  /\ NoListeningSocket(hostMain')

C40_FailedBindAlone == [][C40_Step]_vars

(* the tool listened on 4949, udp:set-listen-port asked for another port,
   the bind failed: no socket is left and listenPort is still 4949 *)
C40_Witness ==
    /\ Len(hostMain.sockets) = 2
    /\ hostMain.sockets[1] = [state |-> "closed", port |-> 4949]
    /\ hostMain.sockets[2] = [state |-> "closed", port |-> 5000]
    /\ hostMain.callers[2] = "udp:set-listen-port"
    /\ hostMain.received > 0
    /\ NoListeningSocket(hostMain)
    /\ hostMain.listenPort = 4949

(* the bind for udp:set-listen-port failed while a socket created by an
   overlapping ensureSocket call is listening *)
C40_WitnessOverlap ==
    \E i \in DOMAIN hostMain.sockets :
        /\ hostMain.callers[i] = "udp:set-listen-port"
        /\ hostMain.sockets[i].state = "closed"
        /\ hostMain.udpSocket \notin {0, i}
        /\ hostMain.udpSocket < i
        /\ hostMain.sockets[hostMain.udpSocket].state = "bound"

----------------------------------------------------------------------------
(* Heartbeats on schedule and the liveness timeout.  One clock, in
   milliseconds, for the device and the dashboard (renderer.clock); sOut
   holds the device's side: how many envelopes it has sent, the envelopes in
   flight with their arrival times, and the delivery delays met so far. *)

MaxBeats == 3

heartbeatIntervalSeconds == 10

(* a wait that is a quarter of the timeout too long *)
HeartbeatWaitLate ==
    (IF heartbeatIntervalSeconds > 1 THEN heartbeatIntervalSeconds ELSE 1) * 1000
        + HEARTBEAT_TIMEOUT_MS \div 4

(* new WaitForSeconds(Mathf.Max(1f, heartbeatIntervalSeconds)), in ms *)
HeartbeatWait ==
    (IF heartbeatIntervalSeconds > 1 THEN heartbeatIntervalSeconds ELSE 1) * 1000

(* the instants of the model are a quarter of the timeout apart *)
BeatStep == HEARTBEAT_TIMEOUT_MS \div 4

(* delivery delays: none, a quarter and a half of the timeout, and more than
   the timeout *)
BeatDelays == {0, BeatStep, 2 * BeatStep, 5 * BeatStep}

(* envelope 0 is the registration, the later ones are the heartbeats *)
BeatPacket(seq) ==
    IF seq = 0
    THEN Packet("10.0.0.21", 5001, TRUE, "RegisterClient", TRUE, RegisterAbc)
    ELSE Packet("10.0.0.21", 5001, TRUE, "Heartbeat", TRUE, HeartbeatAbc)

SendDue == sOut.sent <= MaxBeats /\ renderer.clock = sOut.sent * HeartbeatWait

ArrivalDue == \E p \in sOut.flight : p.arrives = renderer.clock

InitBeat ==
    /\ sharedSecret = ""
    /\ staleCommandWindowSeconds = DefaultStaleWindow
    /\ sendAcknowledgement = TRUE
    /\ enabled = FALSE
    /\ mainPc = "idle"
    /\ _isListening = FALSE
    /\ _receiveClient = Null
    /\ _ackClient = Null
    /\ listenerPc = "none"
    /\ buffer = NoDatagram
    /\ orphans = {}
    /\ _pendingCommands = <<>>
    /\ _processedCommands = EmptyCache
    /\ now = StartMillis
    /\ received = 0
    /\ verdicts = <<>>
    /\ events = <<>>
    /\ sIn = Null
    /\ sOut = [sent |-> 0, flight |-> {}, delays |-> {}]
    /\ burst = 0
    /\ hostMain = HostOff
    /\ udpReporter = ReporterOff
    /\ renderer = RendererOff

beatFrame == <<config, listenerState, sIn, burst, hostMain, udpReporter>>

(* MaybeStartReporting sends the registration and starts HeartbeatLoop;
   HeartbeatLoop: yield return wait; SendHeartbeat().  The network takes
   some delay to deliver the envelope. *)
BeatSend ==
    /\ SendDue
    /\ \E delay \in BeatDelays :
          sOut' = [sent |-> sOut.sent + 1,
                   flight |-> sOut.flight
                       \cup {[seq |-> sOut.sent, arrives |-> renderer.clock + delay]},
                   delays |-> sOut.delays \cup {delay}]
    /\ UNCHANGED <<renderer, beatFrame>>

(* window.udpHost.onMessage for an envelope that has arrived *)
BeatDeliver ==
    /\ \E p \in sOut.flight :
          /\ p.arrives = renderer.clock
          /\ renderer' = processInboundPacket(renderer, BeatPacket(p.seq))
          /\ sOut' = [sOut EXCEPT !.flight = @ \ {p}]
    /\ UNCHANGED beatFrame

(* time passes, once everything due at this instant has happened *)
BeatAdvance ==
    /\ ~SendDue
    /\ ~ArrivalDue
    /\ renderer.clock < MaxBeats * HeartbeatWait
    /\ renderer' = [renderer EXCEPT !.clock = @ + BeatStep]
    /\ UNCHANGED <<sOut, beatFrame>>

NextBeat ==
    \/ BeatSend
    \/ BeatDeliver
    \/ BeatAdvance
    \/ RenderTimer

SpecBeat == InitBeat /\ [][NextBeat]_vars

(* every envelope so far met the same delivery delay *)
OneDelay == Cardinality(sOut.delays) <= 1

(* C37: with the default heartbeat interval of 10 s and the liveness timeout
   of 10 s, a device whose registration and heartbeats are sent on schedule
   and delivered after one and the same delay, whatever that delay is, is
   never drawn or counted offline by a read between two heartbeats. *)
C37_NeverOfflineOnSchedule ==
    OneDelay =>
        /\ renderer.everOffline = {}
        /\ renderer.stats.offline = 0
        /\ \A k \in DOMAIN renderer.displayed : renderer.displayed[k]

(* a read at the instant the next heartbeat is due to arrive, exactly one
   timeout after the last one arrived, drew the device online *)
C37_Witness ==
    /\ sOut.delays = {BeatStep}
    /\ sOut.sent >= 2
    /\ "abc" \in DOMAIN renderer.clients
    /\ renderer.displayedAt - renderer.clients["abc"].lastSeen = HEARTBEAT_TIMEOUT_MS
    /\ renderer.displayedAt = renderer.clock
    /\ renderer.displayed["abc"]

(* a heartbeat that took longer than the one before it: the device was drawn
   offline in between *)
C37_WitnessLaterDelay ==
    /\ ~OneDelay
    /\ "abc" \in renderer.everOffline

----------------------------------------------------------------------------
(* The receive thread, step by step.  In this part a socket is a record
   [id, open]: the field _receiveClient holds NoSocket for null, and a socket
   that has left the field has been closed.  listenerPc is the position of
   the thread that _listenerThread refers to: "test" (the loop condition),
   "call" (about to read _receiveClient and call Receive), "receive"
   (blocked in Receive), "process" (between Receive and the end of the loop
   body), "none" (no thread, or it has left ListenLoop).  Its token is
   cancelled while mainPc = "join", that is between the first try block of
   StopListening and the rest of it.  orphans holds the threads that were
   still alive when Join(100) returned, each with the socket it reads from.
   sOut counts the sockets created and keeps the position the thread was in
   when its token was cancelled; events is the set of records of how each
   thread left. *)

MaxSessions == 2
MaxArrivals == 1

NoSocket == [id |-> 0, open |-> FALSE]

(* what Receive on a socket closed by another thread throws: which of them
   depends on the platform *)
SocketErrors == {"Interrupted", "ObjectDisposed", "OperationAborted"}

(* a loop that does not look at the token *)
LoopContinuesAlways(cancelled) == TRUE

(* while (!cancellationToken.IsCancellationRequested) *)
LoopContinues(cancelled) == ~cancelled

(* the catch clauses of ListenLoop: SocketException when Interrupted and
   ObjectDisposedException break, any other exception is logged and the loop
   goes on *)
Caught(exception) ==
    IF exception \in {"Interrupted", "ObjectDisposed"} THEN "break" ELSE "continue"

AfterCatch(exception) ==
    IF Caught(exception) = "break"
    THEN [pc |-> "none", how |-> exception]
    ELSE [pc |-> "test", how |-> ""]

(* one step of a thread that is not handling a datagram: the loop test, the
   call of _receiveClient.Receive (the field as the thread reads it), or the
   return of a Receive whose socket was closed *)
ThreadAfter(pc, cancelled, field, exception) ==
    CASE pc = "test" ->
            IF LoopContinues(cancelled) THEN [pc |-> "call", how |-> ""]
            ELSE [pc |-> "none", how |-> "cancelled"]
      [] pc = "call" ->
            IF field = NoSocket THEN AfterCatch("NullReference")
            ELSE IF ~field.open THEN AfterCatch("ObjectDisposed")
            ELSE [pc |-> "receive", how |-> ""]
      [] pc = "receive" -> AfterCatch(exception)

(* the datagram that arrives: a signed, fresh command *)
LoopDatagrams ==
    {[kind |-> "json", json |-> Envelope("Beep", "c1", SenderSecret),
      remote |-> HostEndpoint]}

Left(id, from, how, late) ==
    [kind |-> "exit", thread |-> id, from |-> from, how |-> how, late |-> late]

InitLoop ==
    /\ sharedSecret = SenderSecret
    /\ staleCommandWindowSeconds = DefaultStaleWindow
    /\ sendAcknowledgement = TRUE
    /\ enabled = TRUE
    /\ mainPc = "idle"
    /\ _isListening = FALSE
    /\ _receiveClient = NoSocket
    /\ _ackClient = Null
    /\ listenerPc = "none"
    /\ buffer = NoDatagram
    /\ orphans = {}
    /\ _pendingCommands = <<>>
    /\ _processedCommands = EmptyCache
    /\ now = StartMillis
    /\ received = 0
    /\ verdicts = <<>>
    /\ events = {}
    /\ sIn = Null
    /\ sOut = [sessions |-> 0, from |-> "none"]
    /\ burst = 0
    /\ hostMain = HostOff
    /\ udpReporter = ReporterOff
    /\ renderer = RendererOff

loopFrame == <<config, enabled, now, sIn, burst, peers>>

(* StartListening *)
LoopStart ==
    /\ mainPc = "idle"
    /\ ~_isListening
    /\ sOut.sessions < MaxSessions
    /\ sOut' = [sOut EXCEPT !.sessions = @ + 1]
    /\ \E bindOk \in BOOLEAN :
          IF bindOk
          THEN /\ _receiveClient' = [id |-> sOut.sessions + 1, open |-> TRUE]
               /\ _ackClient' = "open"
               /\ listenerPc' = "test"
               /\ _isListening' = TRUE
          ELSE /\ _receiveClient' = NoSocket
               /\ _ackClient' = Null
               /\ UNCHANGED <<listenerPc, _isListening>>
    /\ UNCHANGED <<mainPc, buffer, orphans, _pendingCommands, _processedCommands,
                   received, verdicts, events, loopFrame>>

(* StopListening: _listenCts?.Cancel(); _receiveClient?.Close(); *)
LoopStopSignal ==
    /\ mainPc = "idle"
    /\ _isListening
    /\ mainPc' = "join"
    /\ _receiveClient' = [_receiveClient EXCEPT !.open = FALSE]
    /\ sOut' = [sOut EXCEPT !.from = listenerPc]
    /\ UNCHANGED <<_isListening, _ackClient, listenerPc, buffer, orphans,
                   _pendingCommands, _processedCommands, received, verdicts,
                   events, loopFrame>>

(* StopListening, the rest: Join(100) has returned, because the thread has
   left or because the time is up; CleanupSockets, the fields are reset, the
   cache is cleared *)
LoopStopFinish ==
    /\ mainPc = "join"
    /\ mainPc' = "idle"
    /\ _receiveClient' = NoSocket
    /\ _ackClient' = Null
    /\ _isListening' = FALSE
    /\ _processedCommands' = EmptyCache
    /\ orphans' = IF listenerPc = "none" THEN orphans
                  ELSE orphans \cup {[id |-> _receiveClient.id, pc |-> listenerPc,
                                      socket |-> _receiveClient.id, held |-> buffer,
                                      from |-> sOut.from]}
    /\ listenerPc' = "none"
    /\ buffer' = NoDatagram
    /\ UNCHANGED <<_pendingCommands, received, verdicts, events, sOut, loopFrame>>

SocketOpen(socket) == _receiveClient.id = socket /\ _receiveClient.open

(* the thread of the session in progress *)
ThreadRun ==
    /\ listenerPc \in {"test", "call", "receive"}
    /\ listenerPc = "receive" => ~_receiveClient.open
    /\ \E exception \in SocketErrors :
          LET after == ThreadAfter(listenerPc, mainPc = "join", _receiveClient, exception)
          IN /\ listenerPc' = after.pc
             /\ events' = IF after.pc = "none"
                          THEN events \cup {Left(_receiveClient.id, sOut.from,
                                               after.how, FALSE)}
                          ELSE events
    /\ UNCHANGED <<mainPc, _isListening, _receiveClient, _ackClient, buffer, orphans,
                   _pendingCommands, _processedCommands, received, verdicts,
                   sOut, loopFrame>>

(* Receive returns a datagram *)
ThreadReceive ==
    /\ listenerPc = "receive"
    /\ _receiveClient.open
    /\ received < MaxArrivals
    /\ \E d \in LoopDatagrams : buffer' = d @@ ("seq" :> received + 1)
    /\ received' = received + 1
    /\ verdicts' = Append(verdicts, "pending")
    /\ listenerPc' = "process"
    /\ UNCHANGED <<mainPc, _isListening, _receiveClient, _ackClient, orphans,
                   _pendingCommands, _processedCommands, events, sOut, loopFrame>>

ThreadProcess ==
    /\ listenerPc = "process"
    /\ ProcessDatagram(buffer)
    /\ buffer' = NoDatagram
    /\ listenerPc' = "test"
    /\ UNCHANGED <<mainPc, _isListening, _receiveClient, _ackClient, orphans,
                   events, received, sOut, loopFrame>>

(* a thread that outlived the join; its token is cancelled *)
OrphanRun ==
    /\ \E t \in orphans, exception \in SocketErrors :
          /\ t.pc \in {"test", "call", "receive"}
          /\ t.pc = "receive" => ~SocketOpen(t.socket)
          /\ LET after == ThreadAfter(t.pc, TRUE, _receiveClient, exception)
             IN /\ orphans' =
                      IF after.pc = "none" THEN orphans \ {t}
                      ELSE (orphans \ {t})
                              \cup {[t EXCEPT !.pc = after.pc,
                                              !.socket = IF t.pc = "call"
                                                         THEN _receiveClient.id ELSE @]}
                /\ events' = IF after.pc = "none"
                             THEN events \cup {Left(t.id, t.from, after.how, TRUE)}
                             ELSE events
    /\ UNCHANGED <<mainPc, _isListening, _receiveClient, _ackClient, listenerPc,
                   buffer, _pendingCommands, _processedCommands, received, verdicts,
                   sOut, loopFrame>>

(* a datagram of the session in progress goes to a thread of an earlier one *)
OrphanReceive ==
    /\ received < MaxArrivals
    /\ \E t \in orphans, d \in LoopDatagrams :
          /\ t.pc = "receive"
          /\ SocketOpen(t.socket)
          /\ orphans' = (orphans \ {t})
                \cup {[t EXCEPT !.pc = "process", !.held = d @@ ("seq" :> received + 1)]}
    /\ received' = received + 1
    /\ verdicts' = Append(verdicts, "pending")
    /\ UNCHANGED <<mainPc, _isListening, _receiveClient, _ackClient, listenerPc,
                   buffer, _pendingCommands, _processedCommands, events, sOut, loopFrame>>

OrphanProcess ==
    /\ \E t \in orphans :
          /\ t.pc = "process"
          /\ ProcessDatagram(t.held)
          /\ orphans' = (orphans \ {t}) \cup {[t EXCEPT !.pc = "test", !.held = NoDatagram]}
    /\ UNCHANGED <<mainPc, _isListening, _receiveClient, _ackClient, listenerPc,
                   buffer, events, received, sOut, loopFrame>>

NextLoop ==
    \/ LoopStart
    \/ LoopStopSignal
    \/ LoopStopFinish
    \/ ThreadRun
    \/ ThreadReceive
    \/ ThreadProcess
    \/ OrphanRun
    \/ OrphanReceive
    \/ OrphanProcess

SpecLoop == InitLoop /\ [][NextLoop]_vars

(* the scheduler lets every thread that can take a step take one, and
   StopListening runs to its end; nothing makes a datagram arrive or the
   owner start or stop the listener *)
SpecLoopFair ==
    /\ SpecLoop
    /\ WF_vars(LoopStopFinish)
    /\ WF_vars(ThreadRun)
    /\ WF_vars(ThreadProcess)
    /\ WF_vars(OrphanRun)
    /\ WF_vars(OrphanProcess)

----------------------------------------------------------------------------
(* Claims about cancellation of the receive loop *)

(* the positions the claim names: blocked in Receive, and in the middle of
   processing a datagram *)
NamedPositions == {"receive", "process"}

(* a thread whose token was cancelled in one of these positions is alive *)
CancelledAlive ==
    \/ mainPc = "join" /\ listenerPc # "none" /\ sOut.from \in NamedPositions
    \/ \E t \in orphans : t.from \in NamedPositions

(* such a thread does not call Receive again and is not blocked in a Receive
   that nothing will end; and no thread has left ListenLoop otherwise than
   through the loop test or a break in a catch clause *)
C32_State ==
    /\ (mainPc = "join" /\ sOut.from \in NamedPositions) =>
          /\ listenerPc # "call"
          /\ listenerPc = "receive" => ~_receiveClient.open
    /\ \A t \in orphans :
          t.from \in NamedPositions =>
              /\ t.pc # "call"
              /\ t.pc = "receive" => ~SocketOpen(t.socket)
    /\ \A e \in events : e.how \in {"cancelled", "Interrupted", "ObjectDisposed"}

(* C32: after StopListening has cancelled the token and closed the receive
   socket, a thread that was blocked in Receive or in the middle of
   processing a datagram eventually leaves ListenLoop, through a break in a
   catch clause or through the loop test, whatever the closed socket throws
   and whether or not Join(100) waited for it. *)
C32_CancelTerminates == []C32_State /\ (CancelledAlive ~> ~CancelledAlive)

(* a thread cancelled while blocked in Receive left through the catch of the
   interrupted call, and a thread cancelled while processing a datagram
   finished it after the join had given up and left through the loop test *)
C32_Witness ==
    /\ \E e \in events : e.from = "receive" /\ e.how = "Interrupted"
    /\ \E e \in events : e.from = "process" /\ e.how = "cancelled" /\ e.late
    /\ ~CancelledAlive

(* the closed socket threw something else: logged, and the loop test ended
   the thread *)
C32_WitnessLogged ==
    \E e \in events : e.from = "receive" /\ e.how = "cancelled"

(* outside the two positions: a thread cancelled between the loop test and
   its call of Receive read the socket of the next session from the field
   and is blocked on it *)
C32_WitnessNextSocket ==
    \E t \in orphans :
        /\ t.from = "call"
        /\ t.pc = "receive"
        /\ t.socket # t.id
        /\ SocketOpen(t.socket)

====
